---- MODULE Spec2Model ----
(***************************************************************************)
(* A model of the environmental alert service of src/api/app.py (plus the  *)
(* standalone endpoint of src/api/main.py): the source adapters, the       *)
(* snapshot assembled by get_alert and chat, the remote generation cascade *)
(* of call_ai_api, the rule-based generator and the risk computation.      *)
(*                                                                         *)
(* Python values are tagged records, so that None, numbers, strings and    *)
(* booleans stay distinct and a comparison the interpreter would reject    *)
(* (None >= 5, "n/a" <= 20) is visible as a raised exception.  Numbers are *)
(* sampled at integers; every threshold of the code is an integer.         *)
(***************************************************************************)
EXTENDS Integers, Sequences, FiniteSets, TLC

\* HF_API_KEY, FIRMS_MAP_KEY: whether the credential is configured.
\* req: the request being served; pc: where its handler stands.
\* feeds: what every upstream answered; language, data, prompt: the handler's
\* locals once the snapshot is assembled.
\* idx, attempts: the position in models_to_try and debug_info["attempts"];
\* posted: the names of the models a request was sent to, in order, and
\* replied: what the router did with each of these requests.
\* ai: what call_ai_api returned; response: what the handler returned.
VARIABLES HF_API_KEY, FIRMS_MAP_KEY, req, pc, feeds, language, data, prompt,
          idx, attempts, posted, replied, ai, response

\* src/api/main.py, the single-endpoint service that asks Apertus directly:
\* APERTUS_API_KEY: whether the environment variable is set;
\* main_req, main_pc: the request get_ai_alert is serving and where it stands;
\* requested: the external requests made for it, in order, each with the URL
\* and what came back; raw_data: what fetch_space_weather_data has gathered;
\* main_response: what the endpoint answered.
VARIABLES APERTUS_API_KEY, main_req, main_pc, requested, raw_data, main_response

mainvars == <<APERTUS_API_KEY, main_req, main_pc, requested, raw_data, main_response>>

vars == <<HF_API_KEY, FIRMS_MAP_KEY, req, pc, feeds, language, data, prompt,
          idx, attempts, posted, replied, ai, response, mainvars>>

(***************************************************************************)
(* Python values                                                           *)
(***************************************************************************)
None == [t |-> "none"]
Num(n) == [t |-> "num", v |-> n]
Str(s) == [t |-> "str", s |-> s]
Bool(b) == [t |-> "bool", b |-> b]
List(s) == [t |-> "list", l |-> s]

IsNone(x) == x.t = "none"
IsNum(x) == x.t = "num"

\* bool(x): None, 0, "", False and [] are falsy.
Truthy(x) ==
  CASE x.t = "none" -> FALSE
    [] x.t = "num" -> x.v # 0
    [] x.t = "str" -> x.s # ""
    [] x.t = "bool" -> x.b
    [] x.t = "list" -> Len(x.l) > 0

\* d.get(k, dflt) on a dict modelled as a function with a finite domain.
Get(d, k, dflt) == IF k \in DOMAIN d THEN d[k] ELSE dflt

\* x or 0
OrZero(x) == IF Truthy(x) THEN x ELSE Num(0)

\* An exception that leaves the function that was evaluating.
Exc == [exc |-> TRUE]
IsExc(r) == "exc" \in DOMAIN r

\* float(x) of a fetched field: numbers pass, numeric strings parse, any other
\* string raises ValueError.  The numeric strings of the feeds are listed here.
NumericStrings ==
  ("0" :> 0) @@ ("2" :> 2) @@ ("3" :> 3) @@ ("4" :> 4) @@ ("5" :> 5) @@
  ("6" :> 6) @@ ("7" :> 7) @@ ("8" :> 8) @@ ("9" :> 9)

PyFloat(x) ==
  CASE x.t = "num" -> x
    [] x.t = "str" -> IF x.s \in DOMAIN NumericStrings
                      THEN Num(NumericStrings[x.s]) ELSE Exc
    [] OTHER -> Exc

\* A comparison of x with a number raises TypeError unless x is a number.
CmpRaises(x) == x.t # "num"

(***************************************************************************)
(* TRANSLATIONS and t(key, lang)                                           *)
(***************************************************************************)
TRANSLATIONS_de ==
  ("good_day" :> "Guten Tag") @@ ("air_quality" :> "Luftqualität") @@
  ("good" :> "Gut") @@ ("moderate" :> "Mässig") @@ ("poor" :> "Schlecht") @@
  ("excellent" :> "Ausgezeichnet") @@ ("enjoy_day" :> "Geniessen Sie den Tag!") @@
  ("perfect_outdoor" :> "Perfekt für Outdoor-Aktivitäten") @@
  ("sunscreen_needed" :> "Sonnencreme empfohlen") @@
  ("avoid_sun" :> "Mittagssonne meiden, SPF 50+") @@
  ("warm_clothes" :> "Warme Kleidung empfohlen") @@
  ("stay_hydrated" :> "Viel trinken!") @@
  ("pollen_high" :> "Hohe Pollenbelastung") @@
  ("wildfire_warning" :> "Waldbrände in der Nähe") @@
  ("earthquake_warning" :> "Erdbeben in der Nähe") @@
  ("lightning_warning" :> "Gewitter/Blitze aktiv") @@
  ("aurora_possible" :> "Nordlichter möglich") @@
  ("aurora_unlikely" :> "Nordlichter unwahrscheinlich") @@
  ("cme_warning" :> "Sonnensturm (CME) unterwegs") @@
  ("radiation_warning" :> "Erhöhte Strahlung") @@
  ("hf_radio_disruption" :> "HF-Funk möglicherweise gestört") @@
  ("gps_issues" :> "GPS-Genauigkeit reduziert") @@
  ("Clear" :> "Klar") @@ ("Partly cloudy" :> "Teilweise bewölkt") @@
  ("Overcast" :> "Bewölkt") @@ ("Fog" :> "Nebel") @@
  ("Drizzle" :> "Nieselregen") @@ ("Rain" :> "Regen") @@
  ("Heavy rain" :> "Starkregen") @@ ("Snow" :> "Schnee") @@
  ("Heavy snow" :> "Starker Schneefall") @@ ("Showers" :> "Schauer") @@
  ("Thunderstorm" :> "Gewitter")

TRANSLATIONS_en ==
  ("good_day" :> "Hello") @@ ("air_quality" :> "Air quality") @@
  ("good" :> "Good") @@ ("moderate" :> "Moderate") @@ ("poor" :> "Poor") @@
  ("excellent" :> "Excellent") @@ ("enjoy_day" :> "Enjoy your day!") @@
  ("perfect_outdoor" :> "Perfect for outdoor activities") @@
  ("sunscreen_needed" :> "Sunscreen recommended") @@
  ("avoid_sun" :> "Avoid midday sun, use SPF 50+") @@
  ("warm_clothes" :> "Warm clothes recommended") @@
  ("stay_hydrated" :> "Stay hydrated!") @@
  ("pollen_high" :> "High pollen levels") @@
  ("wildfire_warning" :> "Wildfires nearby") @@
  ("earthquake_warning" :> "Earthquake nearby") @@
  ("lightning_warning" :> "Active thunderstorms/lightning") @@
  ("aurora_possible" :> "Aurora possible") @@
  ("aurora_unlikely" :> "Aurora unlikely") @@
  ("cme_warning" :> "Solar storm (CME) incoming") @@
  ("radiation_warning" :> "Elevated radiation") @@
  ("hf_radio_disruption" :> "HF radio may be disrupted") @@
  ("gps_issues" :> "GPS accuracy reduced") @@
  ("Clear" :> "Clear") @@ ("Partly cloudy" :> "Partly cloudy") @@
  ("Overcast" :> "Overcast") @@ ("Rain" :> "Rain") @@ ("Snow" :> "Snow") @@
  ("Thunderstorm" :> "Thunderstorm")

TRANSLATIONS_fr ==
  ("good_day" :> "Bonjour") @@ ("enjoy_day" :> "Bonne journée!") @@
  ("Clear" :> "Dégagé") @@ ("Partly cloudy" :> "Partiellement nuageux") @@
  ("Overcast" :> "Couvert") @@ ("good" :> "Bon")

TRANSLATIONS_it ==
  ("good_day" :> "Buongiorno") @@ ("enjoy_day" :> "Buona giornata!") @@
  ("Clear" :> "Sereno") @@ ("Partly cloudy" :> "Parzialmente nuvoloso") @@
  ("good" :> "Buono")

TRANSLATIONS ==
  ("de" :> TRANSLATIONS_de) @@ ("en" :> TRANSLATIONS_en) @@
  ("fr" :> TRANSLATIONS_fr) @@ ("it" :> TRANSLATIONS_it)

\* A variant without the second lookup in the default language.
t_no_default(key, lang) ==
  Get(Get(TRANSLATIONS, lang, TRANSLATIONS["de"]), key, key)

t(key, lang) ==
  Get(Get(TRANSLATIONS, lang, TRANSLATIONS["de"]), key,
      Get(TRANSLATIONS["de"], key, key))

(***************************************************************************)
(* Upstream payloads.  A payload is what safe_fetch hands to an adapter:   *)
(* Down is its None (transport error, non-2xx status, body that is not     *)
(* JSON); every other payload is a parsed body, kept to the fields the     *)
(* adapter reads.  Informational result fields (source, unit, time) are    *)
(* left out of the results.                                                *)
(***************************************************************************)
Down == [k |-> "down"]

\* safe_fetch: every failure of the request is turned into None.
safe_fetch(http) ==
  IF http.raised \/ http.status >= 400 \/ ~http.json THEN Down ELSE http.body

(***************************************************************************)
(* NOAA SWPC adapters                                                      *)
(***************************************************************************)
\* levels = {8: Extreme, 7: Severe, 6: Strong, 5: Moderate, 4: Minor, 0: Quiet},
\* scanned from the highest key down, default "Quiet".
KpLevel(kp) ==
  IF ~Truthy(kp) THEN "Quiet"
  ELSE IF kp.v >= 8 THEN "Extreme Storm (G5)"
  ELSE IF kp.v >= 7 THEN "Severe Storm (G4)"
  ELSE IF kp.v >= 6 THEN "Strong Storm (G3)"
  ELSE IF kp.v >= 5 THEN "Moderate Storm (G2)"
  ELSE IF kp.v >= 4 THEN "Minor Storm (G1)"
  ELSE "Quiet"

\* Payloads: Down; [k |-> "rows", n, last]: a list of n rows whose last row has
\* last as its second column; [k |-> "object"]: a JSON object of two or more
\* members, on which data[-1] raises KeyError.
fetch_kp_index(p) ==
  IF p.k = "down" THEN [value |-> None, level |-> "Unknown", status |-> "error"]
  ELSE IF p.k = "object" THEN Exc
  ELSE IF p.n <= 1 THEN [value |-> None, level |-> "Unknown", status |-> "error"]
  ELSE LET kp == IF Truthy(p.last) THEN PyFloat(p.last) ELSE None
       IN  IF IsExc(kp) THEN Exc
           ELSE [value |-> kp, level |-> KpLevel(kp), status |-> "ok"]

DstLevel(v) ==
  IF v > -20 THEN "Quiet"
  ELSE IF v > -50 THEN "Weak Storm"
  ELSE IF v > -100 THEN "Moderate Storm"
  ELSE IF v > -200 THEN "Strong Storm"
  ELSE IF v > -350 THEN "Severe Storm"
  ELSE "Extreme Storm"

\* Payloads: Down; [k |-> "list", latest]: a list whose last entry is the dict
\* latest.  KeyError, TypeError and ValueError are caught inside the adapter.
fetch_dst_index(p) ==
  IF p.k = "down" THEN [status |-> "error", value |-> None]
  ELSE IF "dst" \notin DOMAIN p.latest THEN [status |-> "error", value |-> None]
  ELSE LET v == PyFloat(p.latest["dst"])
       IN  IF IsExc(v) THEN [status |-> "error", value |-> None]
           ELSE [status |-> "ok", value |-> v, level |-> DstLevel(v.v)]

\* Payloads: plasma and mag are each Down or [k |-> "rows", n, speed / bz]: the
\* third column of the last plasma row, the fourth of the last mag row.
SolarWindField(p, f) ==
  IF p.k = "down" \/ p.n <= 1 THEN None
  ELSE IF Truthy(p[f]) THEN PyFloat(p[f]) ELSE None

fetch_solar_wind(p) ==
  LET speed == SolarWindField(p.plasma, "speed")
      bz == SolarWindField(p.mag, "bz")
  IN  IF IsExc(speed) \/ IsExc(bz) THEN Exc
      ELSE [speed |-> speed, bz |-> bz, status |-> "ok"]

\* Flux in units of 1e-8 W/m2, so that 1e-4 is 10000 and 1e-7 is 10.
XrayLevel(flux) ==
  IF flux >= 10000 THEN "X" \o ToString(flux \div 10000)
  ELSE IF flux >= 1000 THEN "M" \o ToString(flux \div 1000)
  ELSE IF flux >= 100 THEN "C" \o ToString(flux \div 100)
  ELSE IF flux >= 10 THEN "B" \o ToString(flux \div 10)
  ELSE "A"

\* Payloads: Down; [k |-> "entries", flux]: flux is the flux of the latest
\* entry that has a truthy one, None when no entry has.
fetch_xray_flux(p) ==
  IF p.k = "down" \/ ~Truthy(p.flux)
  THEN [flux |-> None, level |-> "None", status |-> "error"]
  ELSE LET flux == PyFloat(p.flux)
       IN  IF IsExc(flux) THEN Exc
           ELSE [flux |-> flux, level |-> XrayLevel(flux.v), status |-> "ok"]

ProtonLevel(flux) ==
  IF flux >= 100000 THEN "S5-Extreme"
  ELSE IF flux >= 10000 THEN "S4-Severe"
  ELSE IF flux >= 1000 THEN "S3-Strong"
  ELSE IF flux >= 100 THEN "S2-Moderate"
  ELSE IF flux >= 10 THEN "S1-Minor"
  ELSE "S0-None"

\* Payloads: Down; [k |-> "entries", found, flux]: found says whether an entry
\* of energy ">=10 MeV" exists, flux is that entry's flux.
fetch_proton_flux(p) ==
  IF p.k = "down" \/ ~p.found
  THEN [flux |-> None, level |-> "S0-None", status |-> "error"]
  ELSE LET flux == PyFloat(p.flux)
       IN  IF IsExc(flux) THEN Exc
           ELSE [flux |-> flux, level |-> ProtonLevel(flux.v), status |-> "ok"]

\* Payloads: Down; [k |-> "nogrid"]: a body without "coordinates";
\* [k |-> "grid", prob]: prob is the third component of the grid point nearest
\* to the request (0 for an empty grid).  The nearest-point search itself is
\* not modelled.
fetch_aurora_forecast(p) ==
  IF p.k = "down" \/ p.k = "nogrid" THEN [status |-> "error", probability |-> Num(0)]
  ELSE IF CmpRaises(p.prob) THEN Exc
  ELSE [status |-> "ok", probability |-> p.prob,
        visibility |-> IF p.prob.v >= 50 THEN "Excellent"
                       ELSE IF p.prob.v >= 30 THEN "Good"
                       ELSE IF p.prob.v >= 10 THEN "Fair" ELSE "Low"]

(***************************************************************************)
(* Sequence helpers: s[:n], list.sort(key=...) (stable), max(...)          *)
(***************************************************************************)
\* A variant that keeps the whole list.
TakeAll(s, n) == s

\* A variant of the slice that keeps nothing.
TakeNone(s, n) == <<>>

Take(s, n) == SubSeq(s, 1, IF Len(s) < n THEN Len(s) ELSE n)

\* list.sort(key=...) on a sequence of records that carry their sort key in
\* the field sk: insertion after every element that is not greater keeps
\* equal keys in their original order, as Python's stable sort does.
RECURSIVE InsertSorted(_, _)
InsertSorted(x, s) ==
  IF s = <<>> THEN <<x>>
  ELSE IF x.sk < Head(s).sk THEN <<x>> \o s
  ELSE <<Head(s)>> \o InsertSorted(x, Tail(s))

RECURSIVE StableSort(_)
StableSort(s) ==
  IF s = <<>> THEN <<>>
  ELSE InsertSorted(s[Len(s)], StableSort(SubSeq(s, 1, Len(s) - 1)))

SeqMax(s) == CHOOSE m \in {s[i] : i \in DOMAIN s} : \A i \in DOMAIN s : s[i] <= m

(***************************************************************************)
(* NASA DONKI adapters                                                     *)
(***************************************************************************)
\* Payloads: Down; [k |-> "list", n, earth]: a list of n events, earth says
\* whether some note mentions "Earth"; [k |-> "object"]: a JSON object, on
\* which data[:5] raises TypeError.  An empty list is falsy.
fetch_cme_events(p) ==
  IF p.k = "down" THEN [status |-> "error", count |-> 0]
  ELSE IF p.k = "object" THEN Exc
  ELSE IF p.n = 0 THEN [status |-> "error", count |-> 0]
  ELSE [status |-> "ok", count |-> p.n, earth_directed |-> Bool(p.earth)]

class_order == ("X" :> 5) @@ ("M" :> 4) @@ ("C" :> 3) @@ ("B" :> 2) @@ ("A" :> 1)

\* The class of a flare is [letter, n], written letter followed by n ("X1");
\* the empty classType is [letter |-> "", n |-> 0].
RECURSIVE MaxFlareClass(_, _)
MaxFlareClass(classes, max_class) ==
  IF classes = <<>> THEN max_class
  ELSE LET c == Head(classes)
           better == c.letter \in DOMAIN class_order /\
                     (IsNone(max_class) \/
                      class_order[c.letter] > Get(class_order, max_class.c.letter, 0))
       IN  MaxFlareClass(Tail(classes), IF better THEN [t |-> "class", c |-> c] ELSE max_class)

\* Payloads: Down; [k |-> "list", classes]; [k |-> "object"] (data[:10] raises).
fetch_solar_flares(p) ==
  IF p.k = "down" THEN [status |-> "ok", count |-> 0, max_class |-> None]
  ELSE IF p.k = "object" THEN Exc
  ELSE IF p.classes = <<>> THEN [status |-> "ok", count |-> 0, max_class |-> None]
  ELSE [status |-> "ok", count |-> Len(p.classes),
        max_class |-> MaxFlareClass(Take(p.classes, 10), None)]

\* Payloads: Down; [k |-> "list", n]; [k |-> "object"] (data[:5] raises).
fetch_geomagnetic_storms(p) ==
  IF p.k = "down" THEN [status |-> "ok", count |-> 0, max_kp |-> None]
  ELSE IF p.k = "object" THEN Exc
  ELSE IF p.n = 0 THEN [status |-> "ok", count |-> 0, max_kp |-> None]
  ELSE [status |-> "ok", count |-> p.n]

(***************************************************************************)
(* NASA FIRMS, NASA POWER                                                  *)
(***************************************************************************)
\* Payloads: [k |-> "raise"]: requests.get raised; [k |-> "http", code, rows]:
\* the response, rows being the CSV lines after the header, each
\* [parses, dist]: whether the line has ten columns and numeric coordinates,
\* and its distance from the request in km.  Every exception is caught inside.
fetch_wildfires_nearby(p, key, radius_km) ==
  IF ~key THEN [status |-> "no_api_key", count |-> 0, fires |-> <<>>]
  ELSE IF p.k = "raise" THEN [status |-> "error", count |-> 0, fires |-> <<>>]
  ELSE IF p.code # 200 THEN [status |-> "error", count |-> 0, fires |-> <<>>]
  ELSE IF p.rows = <<>> THEN [status |-> "ok", count |-> 0, fires |-> <<>>]
  ELSE LET hit(r) == r.parses /\ r.dist <= radius_km
           near == SelectSeq(p.rows, hit)
           fires == StableSort([i \in DOMAIN near |->
                                  [distance_km |-> near[i].dist, sk |-> near[i].dist]])
       IN  [status |-> "ok", count |-> Len(fires), fires |-> Take(fires, 20)]

\* Payloads: Down; [k |-> "json", properties]: whether the body has
\* "properties"; a body without usable parameters is caught inside.
fetch_solar_radiation(p) ==
  IF p.k = "down" \/ ~p.properties THEN [status |-> "error"]
  ELSE [status |-> "ok", solar_potential |-> p.rating]

(***************************************************************************)
(* USGS, GDACS, Smithsonian GVP                                            *)
(* calculate_distance (haversine) is not modelled: every event of a feed   *)
(* carries its distance from the request, in km.                           *)
(***************************************************************************)
\* Payloads: Down; [k |-> "geojson", features]: each feature is
\* [mag, dist, geometry]; geometry = FALSE is "geometry": null, on which
\* eq.get("geometry", {}).get(...) raises AttributeError.  mag is whatever
\* the feed carries: max() of a single magnitude returns it unexamined, max()
\* of a string and a number raises TypeError (a feed has at most one string
\* magnitude).
fetch_earthquakes_nearby(p, radius_km) ==
  IF p.k = "down" THEN [status |-> "error", count |-> 0, earthquakes |-> <<>>]
  ELSE IF \E i \in DOMAIN p.features : ~p.features[i].geometry THEN Exc
  ELSE LET hit(e) == e.dist <= radius_km
           near == SelectSeq(p.features, hit)
           nearby == StableSort([i \in DOMAIN near |->
                       [magnitude |-> near[i].mag, distance_km |-> near[i].dist,
                        sk |-> near[i].dist]])
           felt(e) == Truthy(e.magnitude)
           mags == SelectSeq(nearby, felt)
           numeric == \A i \in DOMAIN mags : IsNum(mags[i].magnitude)
           max_mag == IF mags = <<>> THEN None
                      ELSE IF numeric
                      THEN Num(SeqMax([i \in DOMAIN mags |-> mags[i].magnitude.v]))
                      ELSE IF Len(mags) = 1 THEN mags[1].magnitude
                      ELSE Exc
       IN  IF IsExc(max_mag) THEN Exc
           ELSE [status |-> "ok", count |-> Len(nearby), max_magnitude |-> max_mag,
                 earthquakes |-> Take(nearby, 10)]

\* A variant that ranks every level alike, leaving the sort to the distance.
AlertRankFlat(level) == 0

\* {"Red": 0, "Orange": 1, "Green": 2}.get(level, 3)
AlertRank(level) ==
  CASE level = "Red" -> 0 [] level = "Orange" -> 1 [] level = "Green" -> 2
    [] OTHER -> 3

\* Payloads: Down; [k |-> "nofeatures"]; [k |-> "json", features]: each
\* feature is [name, type, alert_level, dist, geometry]; geometry = FALSE is
\* "geometry": null, which raises.  The sort key (rank, distance) is encoded
\* as rank * 100000 + distance, distances being below 100000 km.
fetch_gdacs_alerts(p, radius_km) ==
  IF p.k = "down" \/ p.k = "nofeatures"
  THEN [status |-> "ok", count |-> 0, alerts |-> <<>>]
  ELSE IF \E i \in DOMAIN p.features : ~p.features[i].geometry THEN Exc
  ELSE LET hit(e) == e.dist <= radius_km
           near == SelectSeq(p.features, hit)
           nearby == StableSort([i \in DOMAIN near |->
                       [name |-> near[i].name, type |-> near[i].type,
                        alert_level |-> near[i].alert_level,
                        distance_km |-> near[i].dist,
                        sk |-> AlertRank(near[i].alert_level) * 100000 + near[i].dist]])
       IN  [status |-> "ok", count |-> Len(nearby), alerts |-> Take(nearby, 10)]

\* No request is made: the result depends on the location alone, given here
\* as the number of listed volcanoes within the radius.
fetch_volcanoes_nearby(p) == [status |-> "ok", count |-> p.near]

(***************************************************************************)
(* Open-Meteo adapters                                                     *)
(***************************************************************************)
codes ==
  (0 :> "Clear") @@ (1 :> "Mainly clear") @@ (2 :> "Partly cloudy") @@
  (3 :> "Overcast") @@ (45 :> "Fog") @@ (48 :> "Depositing rime fog") @@
  (51 :> "Light drizzle") @@ (53 :> "Drizzle") @@ (55 :> "Dense drizzle") @@
  (61 :> "Slight rain") @@ (63 :> "Rain") @@ (65 :> "Heavy rain") @@
  (71 :> "Slight snow") @@ (73 :> "Snow") @@ (75 :> "Heavy snow") @@
  (77 :> "Snow grains") @@ (80 :> "Slight showers") @@ (81 :> "Showers") @@
  (82 :> "Violent showers") @@ (85 :> "Snow showers") @@
  (86 :> "Heavy snow showers") @@ (95 :> "Thunderstorm") @@
  (96 :> "Thunderstorm with hail") @@ (99 :> "Severe thunderstorm")

\* Payloads of the Open-Meteo adapters: Down; [k |-> "nullcurrent"]: a body
\* with "current": null, on which current.get raises AttributeError;
\* [k |-> "json", current]: current is the dict of current values.
fetch_weather(p) ==
  IF p.k = "down" THEN [status |-> "error"]
  ELSE IF p.k = "nullcurrent" THEN Exc
  ELSE LET code == Get(p.current, "weather_code", Num(0))
       IN  [status |-> "ok",
            temperature |-> Get(p.current, "temperature_2m", None),
            weather |-> IF IsNum(code) /\ code.v \in DOMAIN codes
                        THEN codes[code.v] ELSE "Unknown",
            weather_code |-> Get(p.current, "weather_code", None)]

\* categories = [(20, excellent), (40, good), (60, moderate), (80, poor),
\* (100, very_poor)], first threshold not below the index, else hazardous.
AqiCategory(aqi) ==
  IF aqi <= 20 THEN "excellent" ELSE IF aqi <= 40 THEN "good"
  ELSE IF aqi <= 60 THEN "moderate" ELSE IF aqi <= 80 THEN "poor"
  ELSE IF aqi <= 100 THEN "very_poor" ELSE "hazardous"

UvCategory(uv) ==
  IF uv >= 11 THEN "Extreme" ELSE IF uv >= 8 THEN "Very High"
  ELSE IF uv >= 6 THEN "High" ELSE IF uv >= 3 THEN "Moderate" ELSE "Low"

fetch_air_quality(p) ==
  IF p.k = "down" THEN [status |-> "error"]
  ELSE IF p.k = "nullcurrent" THEN Exc
  ELSE LET eu_aqi == OrZero(Get(p.current, "european_aqi", Num(0)))
           uv == OrZero(Get(p.current, "uv_index", Num(0)))
       IN  IF CmpRaises(eu_aqi) \/ CmpRaises(uv) THEN Exc
           ELSE [status |-> "ok", eu_aqi |-> eu_aqi, category |-> AqiCategory(eu_aqi.v),
                 uv_index |-> uv, uv_category |-> UvCategory(uv.v)]

pollen_types == <<"grass", "birch", "alder", "ragweed", "olive", "mugwort">>

PollenLevel(v) ==
  IF IsNone(v) \/ v.v < 10 THEN "low"
  ELSE IF v.v < 50 THEN "moderate"
  ELSE IF v.v < 100 THEN "high" ELSE "very_high"

fetch_pollen(p) ==
  IF p.k = "down" THEN [status |-> "error", high_pollen |-> <<>>]
  ELSE IF p.k = "nullcurrent" THEN Exc
  ELSE LET val(ty) == Get(p.current, ty \o "_pollen", None)
           high(ty) == PollenLevel(val(ty)) \in {"high", "very_high"}
       IN  IF \E i \in DOMAIN pollen_types :
                 ~IsNone(val(pollen_types[i])) /\ CmpRaises(val(pollen_types[i]))
           THEN Exc
           ELSE [status |-> "ok",
                 pollen |-> [i \in DOMAIN pollen_types |->
                               [value |-> val(pollen_types[i]),
                                level |-> PollenLevel(val(pollen_types[i]))]],
                 high_pollen |-> SelectSeq(pollen_types, high)]

RECURSIVE SeqSum(_)
SeqSum(s) == IF s = <<>> THEN 0 ELSE Head(s) + SeqSum(Tail(s))

\* max_d > avg_d * 3, > avg_d * 2, > avg_d * 1.5 with avg_d = sum / len, kept
\* in integers by multiplying both sides by len (and by 2 for the factor 1.5).
\* Payloads: Down; [k |-> "json", discharge]: the list of daily values; a
\* string among them makes max / sum raise TypeError.
fetch_flood_risk(p) ==
  IF p.k = "down" THEN [status |-> "error", risk |-> "unknown"]
  ELSE LET some(d) == ~IsNone(d)
           valid == SelectSeq(p.discharge, some)
       IN  IF valid = <<>> THEN [status |-> "no_river", risk |-> "none"]
           ELSE IF \E i \in DOMAIN valid : CmpRaises(valid[i]) THEN Exc
           ELSE LET nums == [i \in DOMAIN valid |-> valid[i].v]
                    max_d == SeqMax(nums)
                    total == SeqSum(nums)
                    n == Len(nums)
                    risk == IF max_d * n > total * 3 THEN "high"
                            ELSE IF max_d * n > total * 2 THEN "moderate"
                            ELSE IF max_d * n * 2 > total * 3 THEN "low"
                            ELSE "none"
                IN  [status |-> "ok", risk |-> risk]

\* Payloads: Down; [k |-> "json", wave_height]: the current wave height.
fetch_marine(p) ==
  IF p.k = "down" \/ ~Truthy(p.wave_height)
  THEN [status |-> "no_coast", conditions |-> "N/A"]
  ELSE IF CmpRaises(p.wave_height) THEN Exc
  ELSE [status |-> "ok", wave_height |-> p.wave_height,
        conditions |-> IF p.wave_height.v > 4 THEN "Dangerous"
                       ELSE IF p.wave_height.v * 2 > 5 THEN "Rough"
                       ELSE IF p.wave_height.v > 1 THEN "Moderate" ELSE "Calm"]

(***************************************************************************)
(* The snapshot of get_alert and chat                                      *)
(* feeds maps every adapter to what its upstream answers during the        *)
(* request: for the adapters built on safe_fetch an HTTP exchange          *)
(* [raised, status, json, body], for the others the payload itself.        *)
(***************************************************************************)
Adapters ==
  <<"weather", "air_quality", "pollen", "kp", "dst", "solar_wind", "xray",
    "protons", "aurora", "cme", "flares", "storms", "earthquakes", "wildfires",
    "volcanoes", "gdacs", "flood", "marine", "solar_radiation">>

AdapterSet == {Adapters[i] : i \in DOMAIN Adapters}

\* The result of one adapter call, with the default radii of the signatures.
AdapterResult(a, f, firms_key) ==
  CASE a = "weather" -> fetch_weather(safe_fetch(f))
    [] a = "air_quality" -> fetch_air_quality(safe_fetch(f))
    [] a = "pollen" -> fetch_pollen(safe_fetch(f))
    [] a = "kp" -> fetch_kp_index(safe_fetch(f))
    [] a = "dst" -> fetch_dst_index(safe_fetch(f))
    [] a = "solar_wind" ->
         fetch_solar_wind([plasma |-> safe_fetch(f.plasma), mag |-> safe_fetch(f.mag)])
    [] a = "xray" -> fetch_xray_flux(safe_fetch(f))
    [] a = "protons" -> fetch_proton_flux(safe_fetch(f))
    [] a = "aurora" -> fetch_aurora_forecast(safe_fetch(f))
    [] a = "cme" -> fetch_cme_events(safe_fetch(f))
    [] a = "flares" -> fetch_solar_flares(safe_fetch(f))
    [] a = "storms" -> fetch_geomagnetic_storms(safe_fetch(f))
    [] a = "earthquakes" -> fetch_earthquakes_nearby(safe_fetch(f), 500)
    [] a = "wildfires" -> fetch_wildfires_nearby(f, firms_key, 100)
    [] a = "volcanoes" -> fetch_volcanoes_nearby(f)
    [] a = "gdacs" -> fetch_gdacs_alerts(safe_fetch(f), 1000)
    [] a = "flood" -> fetch_flood_risk(safe_fetch(f))
    [] a = "marine" -> fetch_marine(safe_fetch(f))
    [] a = "solar_radiation" -> fetch_solar_radiation(safe_fetch(f))

\* The results of the adapter calls of one dict literal.
Results(fd, firms_key) == [a \in AdapterSet |-> AdapterResult(a, fd[a], firms_key)]

\* A variant of the literal that leaves out the marine entry of an inland
\* location.
alert_data_coastal(fd, firms_key) ==
  LET r == Results(fd, firms_key)
      keys == {"weather", "air_quality", "pollen", "space", "donki", "earthquakes",
               "wildfires", "volcanoes", "gdacs", "flood", "solar_radiation"} \cup
              (IF IsExc(r["marine"]) \/ r["marine"].status = "ok" THEN {"marine"} ELSE {})
  IN  IF \E a \in AdapterSet : IsExc(r[a]) THEN Exc
      ELSE [key \in keys |->
              CASE key = "space" -> [kp |-> r["kp"], dst |-> r["dst"],
                                     solar_wind |-> r["solar_wind"], xray |-> r["xray"],
                                     protons |-> r["protons"], aurora |-> r["aurora"]]
                [] key = "donki" -> [cme |-> r["cme"], flares |-> r["flares"],
                                     storms |-> r["storms"]]
                [] OTHER -> r[key]]

\* The dict literal of get_alert: the adapters are called one after the other
\* with nothing around the calls, so the first exception leaves get_alert.
alert_data(fd, firms_key) ==
  LET r == Results(fd, firms_key)
  IN  IF \E a \in AdapterSet : IsExc(r[a]) THEN Exc
      ELSE [weather |-> r["weather"],
            air_quality |-> r["air_quality"],
            pollen |-> r["pollen"],
            space |-> [kp |-> r["kp"], dst |-> r["dst"],
                       solar_wind |-> r["solar_wind"], xray |-> r["xray"],
                       protons |-> r["protons"], aurora |-> r["aurora"]],
            donki |-> [cme |-> r["cme"], flares |-> r["flares"],
                       storms |-> r["storms"]],
            earthquakes |-> r["earthquakes"],
            wildfires |-> r["wildfires"],
            volcanoes |-> r["volcanoes"],
            gdacs |-> r["gdacs"],
            flood |-> r["flood"],
            marine |-> r["marine"],
            solar_radiation |-> r["solar_radiation"]]

\* The same literal, written a second time in chat.
chat_data(fd, firms_key) ==
  LET r == Results(fd, firms_key)
  IN  IF \E a \in AdapterSet : IsExc(r[a]) THEN Exc
      ELSE [weather |-> r["weather"],
            air_quality |-> r["air_quality"],
            pollen |-> r["pollen"],
            space |-> [kp |-> r["kp"], dst |-> r["dst"],
                       solar_wind |-> r["solar_wind"], xray |-> r["xray"],
                       protons |-> r["protons"], aurora |-> r["aurora"]],
            donki |-> [cme |-> r["cme"], flares |-> r["flares"],
                       storms |-> r["storms"]],
            earthquakes |-> r["earthquakes"],
            wildfires |-> r["wildfires"],
            volcanoes |-> r["volcanoes"],
            gdacs |-> r["gdacs"],
            flood |-> r["flood"],
            marine |-> r["marine"],
            solar_radiation |-> r["solar_radiation"]]

\* Where the result of an adapter sits in a snapshot.
Entry(d, a) ==
  IF a \in {"kp", "dst", "solar_wind", "xray", "protons", "aurora"}
  THEN Get(Get(d, "space", <<>>), a, <<>>)
  ELSE IF a \in {"cme", "flares", "storms"}
  THEN Get(Get(d, "donki", <<>>), a, <<>>)
  ELSE Get(d, a, <<>>)

(***************************************************************************)
(* The risk computation of get_alert, block by block in the order of the   *)
(* code.  A step is [delta, factors], or Exc where a comparison raises.  A *)
(* factor is its text, tagged with the block that appended it.             *)
(***************************************************************************)
PyStr(x) ==
  CASE x.t = "none" -> "None"
    [] x.t = "num" -> ToString(x.v)
    [] x.t = "str" -> x.s
    [] x.t = "bool" -> IF x.b THEN "True" ELSE "False"

NoStep == [delta |-> 0, factors |-> <<>>]
\* A variant of a scoring block that adds to the score without a factor.
StepSilent(d, domain, text) == [delta |-> d, factors |-> <<>>]

Step(d, domain, text) ==
  [delta |-> d, factors |-> <<[domain |-> domain, text |-> text]>>]

\* A variant in which the two tests on the fire count are independent.
WildfireStepBoth(d) ==
  LET fire_count == Get(d["wildfires"], "count", 0)
      text == ToString(fire_count) \o " wildfires nearby"
  IN  IF fire_count > 5 THEN Step(4 + 2, "wildfires", text)
      ELSE IF fire_count > 0 THEN Step(2, "wildfires", text)
      ELSE NoStep

WildfireStep(d) ==
  LET fire_count == Get(d["wildfires"], "count", 0)
      text == ToString(fire_count) \o " wildfires nearby"
  IN  IF fire_count > 5 THEN Step(4, "wildfires", text)
      ELSE IF fire_count > 0 THEN Step(2, "wildfires", text)
      ELSE NoStep

\* A variant whose ladder starts one magnitude lower.
EarthquakeStepLow(d) ==
  LET eq_max == Get(d["earthquakes"], "max_magnitude", None)
  IN  IF ~Truthy(eq_max) THEN NoStep
      ELSE IF CmpRaises(eq_max) THEN Exc
      ELSE IF eq_max.v >= 4 THEN Step(3, "earthquakes", "Earthquake M" \o PyStr(eq_max))
      ELSE IF eq_max.v >= 3 THEN Step(1, "earthquakes", "Earthquake M" \o PyStr(eq_max))
      ELSE NoStep

EarthquakeStep(d) ==
  LET eq_max == Get(d["earthquakes"], "max_magnitude", None)
  IN  IF ~Truthy(eq_max) THEN NoStep
      ELSE IF CmpRaises(eq_max) THEN Exc
      ELSE IF eq_max.v >= 5 THEN Step(3, "earthquakes", "Earthquake M" \o PyStr(eq_max))
      ELSE IF eq_max.v >= 4 THEN Step(1, "earthquakes", "Earthquake M" \o PyStr(eq_max))
      ELSE NoStep

GdacsStep(d) ==
  LET gdacs_alerts == Get(d["gdacs"], "alerts", <<>>)
      red(a) == a.alert_level = "Red"
      orange(a) == a.alert_level = "Orange"
      red_alerts == SelectSeq(gdacs_alerts, red)
      orange_alerts == SelectSeq(gdacs_alerts, orange)
      fact(a) == [domain |-> "gdacs", text |-> a.type \o ": " \o a.name]
      facts(as) == [i \in DOMAIN Take(as, 2) |-> fact(as[i])]
  IN  IF red_alerts # <<>> THEN [delta |-> 3, factors |-> facts(red_alerts)]
      ELSE IF orange_alerts # <<>> THEN [delta |-> 1, factors |-> facts(orange_alerts)]
      ELSE NoStep

AirStep(d) ==
  LET aqi == OrZero(Get(d["air_quality"], "eu_aqi", Num(0)))
  IN  IF CmpRaises(aqi) THEN Exc
      ELSE IF aqi.v > 100
      THEN Step(3, "air_quality", "Hazardous air (AQI " \o PyStr(aqi) \o ")")
      ELSE IF aqi.v > 80
      THEN Step(2, "air_quality", "Poor air (AQI " \o PyStr(aqi) \o ")")
      ELSE NoStep

\* A variant that scores the band from 8 up to 11 only.
UvStepBand(d) ==
  LET uv == OrZero(Get(d["air_quality"], "uv_index", Num(0)))
  IN  IF CmpRaises(uv) THEN Exc
      ELSE IF uv.v >= 11 THEN NoStep
      ELSE IF uv.v >= 8 THEN Step(1, "uv", "Very high UV (" \o PyStr(uv) \o ")")
      ELSE NoStep

UvStep(d) ==
  LET uv == OrZero(Get(d["air_quality"], "uv_index", Num(0)))
  IN  IF CmpRaises(uv) THEN Exc
      ELSE IF uv.v >= 11 THEN Step(2, "uv", "Extreme UV (" \o PyStr(uv) \o ")")
      ELSE IF uv.v >= 8 THEN Step(1, "uv", "Very high UV (" \o PyStr(uv) \o ")")
      ELSE NoStep

KpStep(d) ==
  LET kp == OrZero(Get(d["space"]["kp"], "value", Num(0)))
  IN  IF CmpRaises(kp) THEN Exc
      ELSE IF kp.v >= 8 THEN Step(3, "kp", "Extreme storm (Kp=" \o PyStr(kp) \o ")")
      ELSE IF kp.v >= 7 THEN Step(2, "kp", "Severe storm (Kp=" \o PyStr(kp) \o ")")
      ELSE NoStep

CmeStep(d) ==
  IF Truthy(Get(Get(d["donki"], "cme", <<>>), "earth_directed", None))
  THEN Step(1, "cme", "Earth-directed CME")
  ELSE NoStep

\* A variant that scores a flood risk that could not be determined.
FloodStepUnknown(d) ==
  IF Get(d["flood"], "risk", "") \in {"high", "unknown"}
  THEN Step(2, "flood", "High flood risk")
  ELSE NoStep

FloodStep(d) ==
  IF Get(d["flood"], "risk", "") = "high"
  THEN Step(2, "flood", "High flood risk")
  ELSE NoStep

\* A variant that runs the space-weather block first.
RiskStepsKpFirst(d) ==
  <<KpStep(d), WildfireStep(d), EarthquakeStep(d), GdacsStep(d), AirStep(d), UvStep(d),
    CmeStep(d), FloodStep(d)>>

\* The blocks in the order in which get_alert runs them.
RiskSteps(d) ==
  <<WildfireStep(d), EarthquakeStep(d), GdacsStep(d), AirStep(d), UvStep(d),
    KpStep(d), CmeStep(d), FloodStep(d)>>

\* A variant with every breakpoint one step higher.
RiskLevelShifted(risk_score) ==
  IF risk_score >= 8 THEN "Critical"
  ELSE IF risk_score >= 5 THEN "High"
  ELSE IF risk_score >= 3 THEN "Medium"
  ELSE "Low"

RiskLevel(risk_score) ==
  IF risk_score >= 5 THEN "Critical"
  ELSE IF risk_score >= 3 THEN "High"
  ELSE IF risk_score >= 2 THEN "Medium"
  ELSE "Low"

RECURSIVE Concat(_)
Concat(ss) == IF ss = <<>> THEN <<>> ELSE Head(ss) \o Concat(Tail(ss))

\* risk_score and risk_factors after the last block, and the level.
Risk(d) ==
  LET steps == RiskSteps(d)
  IN  IF \E i \in DOMAIN steps : IsExc(steps[i]) THEN Exc
      ELSE LET score == SeqSum([i \in DOMAIN steps |-> steps[i].delta])
           IN  [level |-> RiskLevel(score), score |-> score,
                factors |-> Concat([i \in DOMAIN steps |-> steps[i].factors])]

(***************************************************************************)
(* generate_smart_recommendation                                           *)
(* The text is built from segments: a phrase looked up with t, a phrase    *)
(* written in the code (with the language it is written in, "" for         *)
(* punctuation), or a formatted value.  Emoji are left out and the sign    *)
(* for "at least" is written >=.  A question is                            *)
(* None or a string with has, the keywords its lower-cased text contains;  *)
(* a profile is a string, with the substrings tested on it tabulated.      *)
(***************************************************************************)
T(key, lang) == [src |-> "t", lg |-> lang, text |-> t(key, lang)]
Fixed(text, lg) == [src |-> "fixed", lg |-> lg, text |-> text]
Val(x) == [src |-> "value", lg |-> "", text |-> PyStr(x)]

\* The weather condition as it is shown: the entry of the language's table
\* when the condition was found there, else the condition as fetch_weather
\* names it, which is English.
WeatherSeg(weather_translated, lang) ==
  IF weather_translated = "" THEN Fixed("", "")
  ELSE IF \E k \in DOMAIN Get(TRANSLATIONS, lang, <<>>) :
            TRANSLATIONS[lang][k] = weather_translated
  THEN [src |-> "t", lg |-> lang, text |-> weather_translated]
  ELSE Fixed(weather_translated, "en")

RECURSIVE JoinStr(_, _)
JoinStr(ss, sep) ==
  IF ss = <<>> THEN ""
  ELSE IF Len(ss) = 1 THEN ss[1]
  ELSE ss[1] \o sep \o JoinStr(Tail(ss), sep)

PartText(part) == JoinStr([i \in DOMAIN part.segs |-> part.segs[i].text], "")

\* " ".join(parts)
Render(parts) == JoinStr([i \in DOMAIN parts |-> PartText(parts[i])], " ")

Answer(intent, segs) ==
  [parts |-> <<[kind |-> "answer", intent |-> intent, segs |-> segs]>>]

\* any(w in q_lower for w in words)
Asks(question, words) == question.has \cap words # {}

MetaWords == {"welche ki", "which ai", "llm", "modell", "model", "wer bist", "who are you"}
JogWords == {"joggen", "jogging", "laufen", "running", "run"}
UvWords == {"uv", "sonne", "sun", "sonnencreme", "sunscreen"}
EveningWords == {"abend", "evening", "morgen früh", "morning"}
AuroraWords == {"aurora", "nordlicht", "northern light", "polarlicht"}
AirWords == {"luft", "air", "aqi", "pm2.5", "feinstaub"}

\* "Allergy" in profile, "Aurora" in profile
ProfileHas(profile, w) ==
  CASE w = "Allergy" -> profile \in {"Allergy", "Allergy/Asthma"}
    [] w = "Aurora" -> profile \in {"Aurora Hunter"}

JogAnswer(temp, uv, aqi, weather_translated, lang) ==
  IF CmpRaises(aqi) THEN Exc
  ELSE IF aqi.v > 80
  THEN Answer("jogging", <<T("air_quality", lang), Fixed(" ist schlecht (AQI ", "de"),
         Val(aqi), Fixed("). Heute besser drinnen trainieren oder warten.", "de")>>)
  ELSE IF CmpRaises(uv) THEN Exc
  ELSE IF uv.v >= 8
  THEN Answer("jogging", <<Fixed("UV-Index ist sehr hoch (", "de"), Val(uv),
         Fixed("). Am besten früh morgens (vor 10 Uhr) oder abends (nach 18 Uhr) joggen.", "de")>>)
  ELSE IF Truthy(temp) /\ CmpRaises(temp) THEN Exc
  ELSE IF Truthy(temp) /\ temp.v > 30
  THEN Answer("jogging", <<Fixed("Es ist sehr heiss (", "de"), Val(temp),
         Fixed("°C). Früh morgens ist besser - mehr trinken!", "de")>>)
  ELSE IF Truthy(temp) /\ temp.v < 0
  THEN Answer("jogging", <<Fixed("Es ist kalt (", "de"), Val(temp),
         Fixed("°C). Gut aufwärmen und Schichten tragen!", "de")>>)
  ELSE Answer("jogging", <<Fixed("Perfekt zum Joggen! ", "de"),
         WeatherSeg(weather_translated, lang), Fixed(", ", ""), Val(temp),
         Fixed("°C, gute Luftqualität (AQI ", "de"), Val(aqi), Fixed("). ", ""),
         T("enjoy_day", lang)>>)

UvAnswer(uv) ==
  IF CmpRaises(uv) THEN Exc
  ELSE IF uv.v >= 11
  THEN Answer("uv", <<Fixed("Extremer UV-Index (", "de"), Val(uv),
         Fixed(")! Unbedingt meiden zwischen 11-15 Uhr. SPF 50+ erforderlich.", "de")>>)
  ELSE IF uv.v >= 8
  THEN Answer("uv", <<Fixed("Sehr hoher UV-Index (", "de"), Val(uv),
         Fixed("). Sonnencreme SPF 30+ alle 2h, Mittagssonne meiden.", "de")>>)
  ELSE IF uv.v >= 6
  THEN Answer("uv", <<Fixed("Hoher UV-Index (", "de"), Val(uv),
         Fixed("). Sonnencreme empfohlen, besonders zwischen 11-15 Uhr.", "de")>>)
  ELSE IF uv.v >= 3
  THEN Answer("uv", <<Fixed("Moderater UV-Index (", "de"), Val(uv),
         Fixed("). Leichter Sonnenschutz bei längerer Exposition.", "de")>>)
  ELSE Answer("uv", <<Fixed("Niedriger UV-Index (", "de"), Val(uv),
         Fixed("). Kein besonderer Sonnenschutz nötig.", "de")>>)

EveningAnswer(uv) ==
  IF CmpRaises(uv) THEN Exc
  ELSE IF uv.v >= 6
  THEN Answer("evening", <<Fixed("Morgen früh oder Abend ist besser wegen UV (", "de"),
         Val(uv), Fixed("). Die Temperaturen sind ähnlich.", "de")>>)
  ELSE Answer("evening", <<Fixed("Beide Zeiten sind gut. UV ist niedrig (", "de"),
         Val(uv), Fixed("). Wählen Sie nach Ihrer Präferenz!", "de")>>)

AuroraAnswer(kp, aurora_prob) ==
  IF CmpRaises(kp) THEN Exc
  ELSE IF kp.v < 5 /\ CmpRaises(aurora_prob) THEN Exc
  ELSE IF kp.v >= 5 \/ aurora_prob.v >= 20
  THEN Answer("aurora", <<Fixed("Gute Chancen! Kp=", "de"), Val(kp), Fixed(", ", ""),
         Val(aurora_prob),
         Fixed("% Wahrscheinlichkeit. Dunklen Ort suchen, nach Norden schauen!", "de")>>)
  ELSE Answer("aurora", <<Fixed("Leider unwahrscheinlich heute (Kp=", "de"), Val(kp),
         Fixed(", ", ""), Val(aurora_prob),
         Fixed("%). Kp >=4 benötigt für Mitteleuropa.", "de")>>)

AirAnswer(aqi) ==
  IF CmpRaises(aqi) THEN Exc
  ELSE IF aqi.v <= 40
  THEN Answer("air", <<Fixed("Sehr gute Luftqualität (AQI ", "de"), Val(aqi),
         Fixed("). Perfekt für alle Outdoor-Aktivitäten!", "de")>>)
  ELSE IF aqi.v <= 60
  THEN Answer("air", <<Fixed("Gute Luftqualität (AQI ", "de"), Val(aqi),
         Fixed("). Unbedenklich für die meisten Menschen.", "de")>>)
  ELSE IF aqi.v <= 80
  THEN Answer("air", <<Fixed("Mässige Luftqualität (AQI ", "de"), Val(aqi),
         Fixed("). Empfindliche Personen sollten intensive Aktivitäten einschränken.", "de")>>)
  ELSE Answer("air", <<Fixed("Schlechte Luftqualität (AQI ", "de"), Val(aqi),
         Fixed("). Outdoor-Aktivitäten für alle einschränken.", "de")>>)

MetaAnswer ==
  Answer("meta", <<Fixed("Ich bin der HealthAir Coach, powered by Swiss AI Apertus (ETH Zürich/EPFL). Falls ich gerade nicht über die KI antworte, nutze ich regelbasierte Logik. Du kannst /debug/ai/ aufrufen um den AI-Status zu prüfen.", "de")>>)

Part(kind, segs) == [kind |-> kind, intent |-> "", segs |-> segs]

\* The default recommendation: tips and warnings are appended block by block,
\* then parts = greeting, warnings, tips[:3] and, without warnings, the closing.
DefaultMessage(d, profile, lang, temp, uv, aqi, kp, weather_translated) ==
  LET space == Get(d, "space", <<>>)
      eq == Get(d, "earthquakes", <<>>)
      pollen == Get(d, "pollen", <<>>)
      fires == Get(d, "wildfires", <<>>)
      donki == Get(d, "donki", <<>>)
      eq_max == Get(eq, "max_magnitude", None)
      high_pollen == Get(pollen, "high_pollen", <<>>)
      raises ==
        \/ Truthy(temp) /\ CmpRaises(temp)
        \/ CmpRaises(uv)
        \/ CmpRaises(aqi)
        \/ Truthy(eq_max) /\ CmpRaises(eq_max)
        \/ ProfileHas(profile, "Aurora") /\ CmpRaises(kp)
      temp_tip ==
        IF ~Truthy(temp) THEN <<>>
        ELSE IF temp.v < 5 THEN <<Part("tip", <<T("warm_clothes", lang)>>)>>
        ELSE IF temp.v > 28 THEN <<Part("tip", <<T("stay_hydrated", lang)>>)>>
        ELSE <<>>
      uv_warning ==
        IF uv.v >= 8
        THEN <<Part("warning", <<T("avoid_sun", lang), Fixed(" (UV ", ""), Val(uv),
                                 Fixed(")", "")>>)>>
        ELSE <<>>
      uv_tip ==
        IF uv.v < 8 /\ uv.v >= 3 THEN <<Part("tip", <<T("sunscreen_needed", lang)>>)>>
        ELSE <<>>
      air_warning ==
        IF aqi.v > 80
        THEN <<Part("warning", <<T("air_quality", lang), Fixed(": ", ""), T("poor", lang),
                                 Fixed(" (AQI ", ""), Val(aqi), Fixed(")", "")>>)>>
        ELSE <<>>
      air_tip ==
        IF aqi.v <= 80 /\ aqi.v <= 40
        THEN <<Part("tip", <<T("air_quality", lang), Fixed(": ", ""), T("good", lang)>>)>>
        ELSE <<>>
      fire_warning ==
        IF Get(fires, "count", 0) > 0
        THEN <<Part("warning", <<T("wildfire_warning", lang), Fixed(" (", ""),
                                 Fixed(ToString(Get(fires, "count", 0)), ""),
                                 Fixed(")", "")>>)>>
        ELSE <<>>
      eq_warning ==
        IF Truthy(eq_max) /\ eq_max.v >= 4
        THEN <<Part("warning", <<T("earthquake_warning", lang), Fixed(" (M", ""),
                                 Val(eq_max), Fixed(")", "")>>)>>
        ELSE <<>>
      cme_warning ==
        IF Truthy(Get(Get(donki, "cme", <<>>), "earth_directed", None))
        THEN <<Part("warning", <<T("cme_warning", lang)>>)>>
        ELSE <<>>
      pollen_warning ==
        IF high_pollen # <<>> /\ ProfileHas(profile, "Allergy")
        THEN <<Part("warning", <<T("pollen_high", lang), Fixed(": ", ""),
                                 Fixed(JoinStr(high_pollen, ", "), "")>>)>>
        ELSE <<>>
      aurora_tip ==
        IF ~ProfileHas(profile, "Aurora") THEN <<>>
        ELSE IF kp.v >= 5
        THEN <<Part("tip", <<T("aurora_possible", lang), Fixed("! Kp=", ""), Val(kp)>>)>>
        ELSE <<Part("tip", <<T("aurora_unlikely", lang), Fixed(" (Kp=", ""), Val(kp),
                             Fixed(")", "")>>)>>
      tips == temp_tip \o uv_tip \o air_tip \o aurora_tip
      warnings == uv_warning \o air_warning \o fire_warning \o eq_warning \o
                  cme_warning \o pollen_warning
      weather_desc ==
        IF Truthy(temp)
        THEN <<WeatherSeg(weather_translated, lang), Fixed(", ", ""), Val(temp), Fixed("°C", "")>>
        ELSE <<WeatherSeg(weather_translated, lang)>>
      greeting == Part("greeting", <<T("good_day", lang), Fixed("! ", "")>> \o
                                   weather_desc \o <<Fixed(".", "")>>)
      closing == IF warnings = <<>> THEN <<Part("closing", <<T("enjoy_day", lang)>>)>>
                 ELSE <<>>
  IN  IF raises THEN Exc
      ELSE [parts |-> <<greeting>> \o warnings \o Take(tips, 3) \o closing]

\* The parts of the returned text, or Exc.
SmartParts(d, profile, lang, question) ==
  LET weather == Get(d, "weather", <<>>)
      air == Get(d, "air_quality", <<>>)
      space == Get(d, "space", <<>>)
      temp == Get(weather, "temperature", None)
      uv == OrZero(Get(air, "uv_index", Num(0)))
      aqi == OrZero(Get(air, "eu_aqi", Num(0)))
      kp == OrZero(Get(Get(space, "kp", <<>>), "value", Num(0)))
      weather_cond == Get(weather, "weather", "")
      weather_translated ==
        IF weather_cond \in DOMAIN Get(TRANSLATIONS, lang, <<>>)
        THEN t(weather_cond, lang) ELSE weather_cond
      aurora_prob == Get(Get(space, "aurora", <<>>), "probability", Num(0))
  IN  IF Truthy(question) /\ Asks(question, MetaWords) THEN MetaAnswer
      ELSE IF Truthy(question) /\ Asks(question, JogWords)
      THEN JogAnswer(temp, uv, aqi, weather_translated, lang)
      ELSE IF Truthy(question) /\ Asks(question, UvWords) THEN UvAnswer(uv)
      ELSE IF Truthy(question) /\ Asks(question, EveningWords) THEN EveningAnswer(uv)
      ELSE IF Truthy(question) /\ Asks(question, AuroraWords)
      THEN AuroraAnswer(kp, aurora_prob)
      ELSE IF Truthy(question) /\ Asks(question, AirWords) THEN AirAnswer(aqi)
      ELSE DefaultMessage(d, profile, lang, temp, uv, aqi, kp, weather_translated)

\* " ".join(parts) of what was built, unless building it raised.
Joined(r) == IF IsExc(r) THEN Exc ELSE [parts |-> r.parts, text |-> Render(r.parts)]

\* A variant that sets the question aside for aurora hunters.
generate_by_profile(d, profile, lang, question) ==
  Joined(SmartParts(d, profile, lang,
                    IF ProfileHas(profile, "Aurora") THEN None ELSE question))

\* A variant that looks for the air-quality keywords before any other.
generate_air_first(d, profile, lang, question) ==
  Joined(SmartParts(d, profile, lang,
                    IF Truthy(question) /\ Asks(question, AirWords)
                    THEN [question EXCEPT !.has = @ \cap AirWords] ELSE question))

\* The returned string with the parts it was joined from, or Exc.
generate_smart_recommendation(d, profile, lang, question) ==
  Joined(SmartParts(d, profile, lang, question))

(***************************************************************************)
(* build_ai_prompt, kept to what decides the shape of the prompt: the      *)
(* language instruction, the profile, the question and whether the data    *)
(* summary is part of it (a meta question gets a prompt without data).     *)
(* Every lookup in it is a .get with a default, so it does not raise on a   *)
(* snapshot of get_alert or chat.                                          *)
(***************************************************************************)
lang_instructions ==
  ("de" :> "Antworte auf Deutsch.") @@ ("en" :> "Answer in English.") @@
  ("fr" :> "Réponds en français.") @@ ("it" :> "Rispondi in italiano.")

PromptMetaWords ==
  {"welche ki", "welches llm", "welches modell", "wer bist du", "was bist du",
   "which ai", "which llm", "which model", "who are you", "what are you",
   "quel modèle", "quale modello"}

build_ai_prompt(d, profile, lang, user_question) ==
  IF Truthy(user_question) /\ Asks(user_question, PromptMetaWords)
  THEN [question |-> user_question.s, summary |-> FALSE, profile |-> "",
        instruction |-> Get(lang_instructions, lang, "Deutsch")]
  ELSE [question |-> IF Truthy(user_question) THEN user_question.s ELSE "",
        summary |-> TRUE, profile |-> profile,
        instruction |-> Get(lang_instructions, lang, lang_instructions["de"])]

(***************************************************************************)
(* call_ai_api: the cascade over models_to_try                             *)
(* What the router does with one request is a reply:                       *)
(*   [k |-> "timeout"]            requests.post raised Timeout             *)
(*   [k |-> "raised", msg]        requests.post raised another exception   *)
(*   [k |-> "http", status, body, json, error, choices, content]           *)
(* body is the first 200 characters of the text, json says whether the     *)
(* text parses; error is the "error" member of a                           *)
(* failure body (None when absent, a string, or a dict given by its        *)
(* message); choices says whether "choices" is present and non-empty;      *)
(* content is the message content of the first choice: None, or            *)
(* [lead, core, trail] with lead and trail whitespace and core free of     *)
(* whitespace at both ends.                                                *)
(***************************************************************************)
models_to_try ==
  <<[model |-> "swiss-ai/Apertus-8B-Instruct-2509:publicai", name |-> "Apertus-8B (PublicAI)"],
    [model |-> "swiss-ai/Apertus-70B-Instruct-2509:publicai", name |-> "Apertus-70B (PublicAI)"],
    [model |-> "HuggingFaceH4/zephyr-7b-beta:hf-inference", name |-> "Zephyr-7B (HF Inference)"],
    [model |-> "mistralai/Mistral-7B-Instruct-v0.2:hf-inference", name |-> "Mistral-7B (HF Inference)"]>>

Raw(content) == content.lead \o content.core \o content.trail

\* text.strip()
Strip(content) == content.core

\* A variant of the length test that accepts any text that is not empty.
AnyText(text) == text # ""

\* if text and len(text) > 20
LongEnough(text) == text # "" /\ Len(text) > 20

\* One pass of the loop body: the attempt record as it is when the pass ends
\* and the text it returns, None when the pass falls through to the append.
TryModel(config, reply) ==
  LET attempt == [name |-> config.name, model |-> config.model]
      failed(att, error) == [attempt |-> att @@ [error |-> error], text |-> None]
  IN  IF reply.k = "timeout" THEN failed(attempt, "Timeout (30s)")
      ELSE IF reply.k = "raised" THEN failed(attempt, reply.msg)
      ELSE LET got == attempt @@ [status |-> reply.status]
           IN  IF reply.status = 200
               THEN IF ~reply.json THEN failed(got, "Expecting value: line 1 column 1 (char 0)")
                    ELSE IF ~reply.choices THEN failed(got, "No valid content in response")
                    ELSE IF reply.content = None
                    THEN failed(got, "'NoneType' object has no attribute 'strip'")
                    ELSE LET text == Strip(reply.content)
                         IN  IF LongEnough(text)
                             THEN [attempt |-> got @@ [success |-> TRUE], text |-> Str(text)]
                             ELSE failed(got, "No valid content in response")
               ELSE IF ~reply.json THEN failed(got, reply.body)
               ELSE IF IsNone(reply.error) THEN failed(got, reply.body)
               ELSE failed(got, reply.error.s)

\* A variant of debug_info that keeps the last attempt only.
DebugInfoLast(key, atts) ==
  [api_key_set |-> key,
   attempts |-> IF atts = <<>> THEN <<>> ELSE <<atts[Len(atts)]>>]

\* debug_info as call_ai_api starts it, and as it returns it.
DebugInfo(key, atts) == [api_key_set |-> key, attempts |-> atts]

NotCalled == [called |-> FALSE, text |-> None, debug |-> DebugInfo(FALSE, <<>>)]
Returned(text, debug) == [called |-> TRUE, text |-> text, debug |-> debug]

(***************************************************************************)
(* Requests and responses                                                  *)
(***************************************************************************)
NoRequest == [kind |-> "none"]
NoFeeds == <<>>
NoSnapshot == [assembled |-> FALSE]
NoResponse == [status |-> "pending"]

\* An exception that leaves the endpoint function: the framework answers 500.
Aborted == [status |-> "error", code |-> 500]

\* A variant that keeps the language as it was sent.
CoerceKeep(lang) == lang

\* if language not in TRANSLATIONS: language = "de"
Coerce(lang) == IF lang \in DOMAIN TRANSLATIONS THEN lang ELSE "de"

NoPrompt == [summary |-> FALSE]

(***************************************************************************)
(* The handlers.  A handler is cut where it waits for the remote           *)
(* generation router: its entry runs up to the call of call_ai_api, every  *)
(* pass of the loop of call_ai_api is a step, and its finish runs from the  *)
(* return of call_ai_api to its own return.  The sets of requests, feeds   *)
(* and replies a specification explores are parameters.                    *)
(***************************************************************************)
InitWith(hf, firms) ==
  /\ HF_API_KEY \in hf
  /\ FIRMS_MAP_KEY \in firms
  /\ req = NoRequest
  /\ pc = "idle"
  /\ feeds = NoFeeds
  /\ language = ""
  /\ data = NoSnapshot
  /\ prompt = NoPrompt
  /\ idx = 0
  /\ attempts = <<>>
  /\ posted = <<>>
  /\ replied = <<>>
  /\ ai = NotCalled
  /\ response = NoResponse
  /\ APERTUS_API_KEY = FALSE
  /\ main_req = [kind |-> "none"]
  /\ main_pc = "idle"
  /\ requested = <<>>
  /\ raw_data = [gathered |-> FALSE]
  /\ main_response = [status |-> "pending"]

\* Language coercion, the snapshot, and the choice between the remote cascade
\* and the rule-based generator.
Enter(r, fd, d, question) ==
  /\ req' = r
  /\ feeds' = fd
  /\ language' = Coerce(r.language)
  /\ UNCHANGED <<mainvars, HF_API_KEY, FIRMS_MAP_KEY, attempts, posted, replied, ai>>
  /\ IF IsExc(d)
     THEN /\ data' = NoSnapshot
          /\ response' = Aborted
          /\ pc' = "done"
          /\ UNCHANGED <<prompt, idx>>
     ELSE /\ data' = d
          /\ response' = NoResponse
          /\ IF HF_API_KEY
             THEN /\ prompt' = build_ai_prompt(d, r.profile, Coerce(r.language), question)
                  /\ idx' = 1
                  /\ pc' = "call"
             ELSE /\ pc' = "respond"
                  /\ UNCHANGED <<prompt, idx>>

get_alert(Reqs, F) ==
  /\ pc = "idle"
  /\ \E r \in Reqs, fd \in F :
       /\ r.kind = "alert"
       /\ Enter(r, fd, alert_data(fd, FIRMS_MAP_KEY), None)

chat(Reqs, F) ==
  /\ pc = "idle"
  /\ \E r \in Reqs, fd \in F :
       /\ r.kind = "chat"
       /\ Enter(r, fd, chat_data(fd, FIRMS_MAP_KEY), r.question)

debug_ai ==
  /\ pc = "idle"
  /\ req' = [kind |-> "debug_ai"]
  /\ idx' = 1
  /\ pc' = "call"
  /\ UNCHANGED <<mainvars, HF_API_KEY, FIRMS_MAP_KEY, feeds, language, data, prompt,
                 attempts, posted, replied, ai, response>>

\* if not HF_API_KEY: return None, debug_info
call_ai_api_no_key ==
  /\ pc = "call"
  /\ ~HF_API_KEY
  /\ ai' = Returned(None, DebugInfo(FALSE, <<>>) @@ [error |-> "No API key configured"])
  /\ pc' = "respond"
  /\ UNCHANGED <<mainvars, HF_API_KEY, FIRMS_MAP_KEY, req, feeds, language, data, prompt,
                 idx, attempts, posted, replied, response>>

\* A variant of the loop that goes on to the next model after a usable text.
AfterPassNoReturn(pass, i) ==
  IF i < Len(models_to_try) THEN [returns |-> FALSE, idx |-> i + 1]
  ELSE [returns |-> TRUE, idx |-> i + 1]

\* A variant of the loop that passes over the model after a failed one.
AfterPassSkip(pass, i) ==
  IF Truthy(pass.text) THEN [returns |-> TRUE, idx |-> i]
  ELSE IF i + 1 < Len(models_to_try) THEN [returns |-> FALSE, idx |-> i + 2]
  ELSE [returns |-> TRUE, idx |-> i + 2]

\* Where the loop stands after the pass over models_to_try[i]: a usable text
\* returns at once, a failed pass goes on to the next model, and the loop
\* falling off the end of the list returns None.
AfterPass(pass, i) ==
  IF Truthy(pass.text) THEN [returns |-> TRUE, idx |-> i]
  ELSE IF i < Len(models_to_try) THEN [returns |-> FALSE, idx |-> i + 1]
  ELSE [returns |-> TRUE, idx |-> i + 1]

\* One pass of the loop over models_to_try, and the return that ends the loop.
call_ai_api(Replies) ==
  /\ pc = "call"
  /\ HF_API_KEY
  /\ idx \in DOMAIN models_to_try
  /\ \E reply \in Replies :
       LET config == models_to_try[idx]
           pass == TryModel(config, reply)
           atts == Append(attempts, pass.attempt)
           after == AfterPass(pass, idx)
       IN  /\ posted' = Append(posted, config.name)
           /\ replied' = Append(replied, reply)
           /\ attempts' = atts
           /\ idx' = after.idx
           /\ IF ~after.returns THEN UNCHANGED <<ai, pc>>
              ELSE /\ pc' = "respond"
                   /\ ai' = IF Truthy(pass.text)
                            THEN Returned(pass.text, DebugInfo(TRUE, atts) @@
                                                     [success_model |-> config.name])
                            ELSE Returned(None, DebugInfo(TRUE, atts))
  /\ UNCHANGED <<mainvars, HF_API_KEY, FIRMS_MAP_KEY, req, feeds, language, data, prompt,
                 response>>

\* recommendation and ai_source of get_alert, answer and ai_source of chat:
\* the remote text when there is one, else the rule-based text r, or Exc.
RuleBased(r) == IF IsExc(r) THEN Exc ELSE [text |-> r.text, ai_source |-> "rule-based"]

\* A variant that names the head of the model list whenever the text is remote.
AdviceByPrimary(question) ==
  IF Truthy(ai.text)
  THEN [text |-> ai.text.s, ai_source |-> models_to_try[1].name]
  ELSE RuleBased(generate_smart_recommendation(data, req.profile, language, question))

Advice(question) ==
  IF Truthy(ai.text)
  THEN [text |-> ai.text.s, ai_source |-> Get(ai.debug, "success_model", "apertus")]
  ELSE RuleBased(generate_smart_recommendation(data, req.profile, language, question))

\* A variant in which the assessment is left out when the text is remote.
AlertResponseByAdvice(advice, risk) ==
  IF IsExc(advice) \/ IsExc(risk) THEN Aborted
  ELSE [status |-> "success", profile |-> req.profile, language |-> language,
        recommendation |-> advice.text, ai_source |-> advice.ai_source,
        risk |-> IF advice.ai_source = "rule-based" THEN risk
                 ELSE [level |-> "Low", score |-> 0, factors |-> <<>>]]

\* The dict get_alert returns, once the text is there and the risk is computed.
AlertResponse(advice, risk) ==
  IF IsExc(advice) \/ IsExc(risk) THEN Aborted
  ELSE [status |-> "success", profile |-> req.profile, language |-> language,
        recommendation |-> advice.text, ai_source |-> advice.ai_source,
        risk |-> risk]

get_alert_return ==
  /\ pc = "respond"
  /\ req.kind = "alert"
  /\ response' = AlertResponse(Advice(None), Risk(data))
  /\ pc' = "done"
  /\ UNCHANGED <<mainvars, HF_API_KEY, FIRMS_MAP_KEY, req, feeds, language, data, prompt,
                 idx, attempts, posted, replied, ai>>

ChatResponse(advice) ==
  IF IsExc(advice) THEN Aborted
  ELSE [status |-> "success", question |-> req.question.s,
        answer |-> advice.text, ai_source |-> advice.ai_source,
        language |-> language]

chat_return ==
  /\ pc = "respond"
  /\ req.kind = "chat"
  /\ response' = ChatResponse(Advice(req.question))
  /\ pc' = "done"
  /\ UNCHANGED <<mainvars, HF_API_KEY, FIRMS_MAP_KEY, req, feeds, language, data, prompt,
                 idx, attempts, posted, replied, ai>>

debug_ai_return ==
  /\ pc = "respond"
  /\ req.kind = "debug_ai"
  /\ response' = [status |-> IF Truthy(ai.text) THEN "success" ELSE "failed",
                  response |-> ai.text, debug |-> ai.debug]
  /\ pc' = "done"
  /\ UNCHANGED <<mainvars, HF_API_KEY, FIRMS_MAP_KEY, req, feeds, language, data, prompt,
                 idx, attempts, posted, replied, ai>>

(***************************************************************************)
(* The environment: what the upstream services may answer                  *)
(***************************************************************************)
\* HTTP exchanges as safe_fetch sees them.
Ok(body) == [raised |-> FALSE, status |-> 200, json |-> TRUE, body |-> body]
Unreachable == [raised |-> TRUE, status |-> 0, json |-> FALSE, body |-> Down]
Http503 == [raised |-> FALSE, status |-> 503, json |-> FALSE, body |-> Down]
NotJson == [raised |-> FALSE, status |-> 200, json |-> FALSE, body |-> Down]

Current(fields) == Ok([k |-> "json", current |-> fields])
Weather(temp, code) == Current(("temperature_2m" :> temp) @@ ("weather_code" :> code))
Air(aqi, uv) == Current(("european_aqi" :> aqi) @@ ("uv_index" :> uv))
Pollen(grass) == Current("grass_pollen" :> grass)
Kp(last) == Ok([k |-> "rows", n |-> 3, last |-> last])
SolarWind(speed, bz) ==
  [plasma |-> Ok([k |-> "rows", n |-> 3, speed |-> speed]),
   mag |-> Ok([k |-> "rows", n |-> 3, bz |-> bz])]
Cme(n, earth) == Ok([k |-> "list", n |-> n, earth |-> earth])
Quake(mag, dist) == [mag |-> mag, dist |-> dist, geometry |-> TRUE]
Quakes(features) == Ok([k |-> "geojson", features |-> features])
FireRows(n) == [k |-> "http", code |-> 200, rows |-> [i \in 1..n |-> [parses |-> TRUE, dist |-> 10 * i]]]
Disaster(name, type, level, dist) ==
  [name |-> name, type |-> type, alert_level |-> level, dist |-> dist, geometry |-> TRUE]
Gdacs(features) == Ok([k |-> "json", features |-> features])
Flood(discharge) == Ok([k |-> "json", discharge |-> discharge])
JsonObject == Ok([k |-> "object"])
NullCurrent == Ok([k |-> "nullcurrent"])

\* A quiet day: every upstream answers, nothing is near a threshold.
Nominal ==
  [weather |-> Weather(Num(18), Num(1)),
   air_quality |-> Air(Num(35), Num(4)),
   pollen |-> Pollen(Num(5)),
   kp |-> Kp(Str("2")),
   dst |-> Ok([k |-> "list", latest |-> ("dst" :> Num(-10))]),
   solar_wind |-> SolarWind(Num(400), Num(-2)),
   xray |-> Ok([k |-> "entries", flux |-> Num(50)]),
   protons |-> Ok([k |-> "entries", found |-> TRUE, flux |-> Num(1)]),
   aurora |-> Ok([k |-> "grid", prob |-> Num(5)]),
   cme |-> Cme(1, FALSE),
   flares |-> Ok([k |-> "list", classes |-> <<[letter |-> "C", n |-> 1]>>]),
   storms |-> Ok([k |-> "list", n |-> 0]),
   earthquakes |-> Quakes(<<Quake(Num(3), 120)>>),
   wildfires |-> FireRows(0),
   volcanoes |-> [near |-> 0],
   gdacs |-> Gdacs(<<>>),
   flood |-> Flood(<<Num(10), Num(11)>>),
   marine |-> Ok([k |-> "json", wave_height |-> None]),
   solar_radiation |-> Ok([k |-> "json", properties |-> TRUE, rating |-> "Good"])]

\* Every upstream that is fetched is unreachable.
AllDown ==
  [a \in AdapterSet |->
     CASE a = "solar_wind" -> [plasma |-> Unreachable, mag |-> Unreachable]
       [] a = "wildfires" -> [k |-> "raise"]
       [] a = "volcanoes" -> [near |-> 0]
       [] OTHER -> Unreachable]

\* The ways in which the upstream of one adapter fails: by not answering, by
\* answering with an error status, and by answering 200 with a body of another
\* shape than the adapter expects.
Failures(a) ==
  CASE a = "weather" -> {Unreachable, Http503, NullCurrent, Weather(Str("n/a"), Num(1))}
    [] a = "air_quality" -> {Unreachable, Http503, NullCurrent, Air(Str("n/a"), Num(4))}
    [] a = "pollen" -> {Unreachable, NotJson, NullCurrent}
    [] a = "kp" -> {Unreachable, Http503, JsonObject, Kp(Str("n/a"))}
    [] a = "dst" -> {Unreachable, Ok([k |-> "list", latest |-> ("dst" :> Str("n/a"))])}
    [] a = "solar_wind" -> {[plasma |-> Unreachable, mag |-> Unreachable],
                            SolarWind(Str("n/a"), Num(-2))}
    [] a = "xray" -> {Unreachable, Ok([k |-> "entries", flux |-> Str("n/a")])}
    [] a = "protons" -> {Unreachable, Ok([k |-> "entries", found |-> TRUE, flux |-> Str("n/a")])}
    [] a = "aurora" -> {Unreachable, Ok([k |-> "nogrid"]), Ok([k |-> "grid", prob |-> Str("n/a")])}
    [] a = "cme" -> {Unreachable, Http503, JsonObject}
    [] a = "flares" -> {Unreachable, JsonObject}
    [] a = "storms" -> {Unreachable, JsonObject}
    [] a = "earthquakes" -> {Unreachable, Http503,
                             Quakes(<<[mag |-> Num(3), dist |-> 120, geometry |-> FALSE]>>),
                             Quakes(<<Quake(Str("n/a"), 120)>>)}
    [] a = "wildfires" -> {[k |-> "raise"], [k |-> "http", code |-> 503, rows |-> <<>>],
                           [k |-> "http", code |-> 200,
                            rows |-> <<[parses |-> FALSE, dist |-> 10]>>]}
    [] a = "volcanoes" -> {}
    [] a = "gdacs" -> {Unreachable,
                       Gdacs(<<[name |-> "Flood", type |-> "FL", alert_level |-> "Red",
                                dist |-> 50, geometry |-> FALSE]>>)}
    [] a = "flood" -> {Unreachable, Flood(<<Num(10), Str("n/a")>>)}
    [] a = "marine" -> {Unreachable, Ok([k |-> "json", wave_height |-> Str("n/a")])}
    [] a = "solar_radiation" -> {Unreachable, Ok([k |-> "json", properties |-> FALSE,
                                                  rating |-> "Good"])}

\* The feeds that differ from base in the upstream of at most n adapters.
RECURSIVE FailingWithin(_, _)
FailingWithin(base, n) ==
  IF n = 0 THEN {base}
  ELSE LET prev == FailingWithin(base, n - 1)
       IN  prev \cup UNION {{[f EXCEPT ![a] = v] : v \in Failures(a)} :
                              f \in prev, a \in AdapterSet}

\* A day on which every scored domain is past a threshold.
Stormy ==
  [Nominal EXCEPT
     !.weather = Weather(Num(31), Num(95)),
     !.air_quality = Air(Num(101), Num(11)),
     !.pollen = Pollen(Num(60)),
     !.kp = Kp(Str("8")),
     !.aurora = Ok([k |-> "grid", prob |-> Num(40)]),
     !.cme = Cme(2, TRUE),
     !.earthquakes = Quakes(<<Quake(Num(5), 300), Quake(Num(4), 120), Quake(Num(6), 700)>>),
     !.wildfires = FireRows(6),
     !.gdacs = Gdacs(<<Disaster("Flood A", "FL", "Orange", 100),
                       Disaster("Cyclone B", "TC", "Red", 900),
                       Disaster("Quake C", "EQ", "Red", 200),
                       Disaster("Fire D", "WF", "Red", 400)>>),
     !.flood = Flood(<<Num(2), Num(2), Num(2), Num(20)>>)]

\* What the router may do with one request.
Content(lead, core, trail) == [lead |-> lead, core |-> core, trail |-> trail]
Timeout == [k |-> "timeout"]
ConnectionError == [k |-> "raised", msg |-> "Connection refused"]
Http(status, body, json, error, choices, content) ==
  [k |-> "http", status |-> status, body |-> body, json |-> json, error |-> error,
   choices |-> choices, content |-> content]
Completion(content) == Http(200, "{...}", TRUE, None, TRUE, content)

Chars20 == "Guten Tag, alles ok."
Chars21 == "Guten Tag, alles gut."

\* Replies that carry a usable text.
UsableReplies ==
  {Completion(Content("", Chars21, "")),
   Completion(Content(" ", Chars21, " "))}

\* Replies that do not: transport failures, failure statuses with and without
\* a JSON error, a 200 whose body does not parse, a 200 without choices, and
\* contents that are missing, empty, blank, or not longer than 20 characters
\* once stripped.
FailingReplies ==
  {Timeout,
   ConnectionError,
   Http(503, "Service Unavailable", FALSE, None, FALSE, None),
   Http(401, "{...}", TRUE, Str("Invalid credentials"), FALSE, None),
   Http(404, "{...}", TRUE, None, FALSE, None),
   Http(200, "<html>", FALSE, None, FALSE, None),
   Http(200, "{...}", TRUE, None, FALSE, None),
   Completion(None),
   Completion(Content("", "", "")),
   Completion(Content("  ", "", "  ")),
   Completion(Content("", Chars20, "")),
   Completion(Content("  ", Chars20, "  "))}

(***************************************************************************)
(* Requests                                                                *)
(***************************************************************************)
AlertRequest(profile, lang) == [kind |-> "alert", profile |-> profile, language |-> lang]
ChatRequest(profile, lang, question) ==
  [kind |-> "chat", profile |-> profile, language |-> lang, question |-> question]

\* A question: its text and the keywords of the intent lists that occur in
\* its lower-cased text.
Question(text, has) == [t |-> "str", s |-> text, has |-> has]

(***************************************************************************)
(* The service end to end: either credential present or absent, alert and  *)
(* chat requests, a quiet and a stormy day with up to MaxFaults upstreams   *)
(* failing, a total outage, and a router that times out or answers.        *)
(***************************************************************************)
MaxFaults == 1

Requests ==
  {AlertRequest("General Public", "de"),
   AlertRequest("Aurora Hunter", "xx"),
   ChatRequest("Allergy", "en", Question("Can I go running today?", {"running", "run"})),
   ChatRequest("General Public", "fr", Question("Was soll ich anziehen?", {}))}

Feeds ==
  FailingWithin(Nominal, MaxFaults) \cup FailingWithin(Stormy, MaxFaults) \cup {AllDown}

Replies == {Timeout, Completion(Content(" ", Chars21, " "))}

Init == InitWith(BOOLEAN, BOOLEAN)

Next ==
  \/ get_alert(Requests, Feeds)
  \/ chat(Requests, Feeds)
  \/ debug_ai
  \/ call_ai_api(Replies)
  \/ call_ai_api_no_key
  \/ get_alert_return
  \/ chat_return
  \/ debug_ai_return

Spec == Init /\ [][Next]_vars

(***************************************************************************)
(* The cascade alone, driven through /debug/ai/ with every kind of reply.  *)
(* A request to the router ends within its timeout and the handler runs    *)
(* on, which is the weak fairness of the steps.                            *)
(***************************************************************************)
InitCascade == InitWith(BOOLEAN, {FALSE})

NextCascade ==
  \/ debug_ai
  \/ call_ai_api(UsableReplies \cup FailingReplies)
  \/ call_ai_api_no_key
  \/ debug_ai_return

SpecCascade == InitCascade /\ [][NextCascade]_vars /\ WF_vars(NextCascade)

(***************************************************************************)
(* The risk computation over the values around every threshold, without    *)
(* the remote cascade.                                                     *)
(***************************************************************************)
RiskFeeds ==
  {[Nominal EXCEPT
      !.wildfires = FireRows(fires),
      !.earthquakes = Quakes(<<Quake(Num(mag), 120)>>),
      !.gdacs = Gdacs(alerts),
      !.air_quality = Air(Num(aqi), Num(uv)),
      !.kp = Kp(Str(kp)),
      !.cme = Cme(1, cme),
      !.flood = Flood(discharge)] :
     fires \in {0, 1, 6}, mag \in {3, 4, 5},
     alerts \in {<<>>, <<Disaster("Flood A", "FL", "Orange", 100)>>,
                 <<Disaster("Flood A", "FL", "Orange", 100),
                   Disaster("Cyclone B", "TC", "Red", 900)>>,
                 <<Disaster("Cyclone B", "TC", "Red", 900),
                   Disaster("Quake C", "EQ", "Red", 200)>>},
     aqi \in {80, 81, 101}, uv \in {7, 8, 11}, kp \in {"6", "7", "8"},
     cme \in BOOLEAN,
     discharge \in {<<Num(10), Num(11)>>, <<Num(2), Num(2), Num(2), Num(20)>>}}

InitRisk == InitWith({FALSE}, {TRUE})

NextRisk ==
  \/ get_alert({AlertRequest("General Public", "en")}, RiskFeeds)
  \/ get_alert_return

SpecRisk == InitRisk /\ [][NextRisk]_vars

(***************************************************************************)
(* Properties of the cascade (SpecCascade)                                 *)
(***************************************************************************)
\* A reply with usable text: HTTP 200, a non-empty choices list and a message
\* content longer than 20 characters after stripping.
Usable(reply) ==
  /\ reply.k = "http"
  /\ reply.status = 200
  /\ reply.json
  /\ reply.choices
  /\ reply.content # None
  /\ Len(Strip(reply.content)) > 20

ModelNames(n) == [i \in 1..n |-> models_to_try[i].name]

\* C1: as soon as the k-th endpoint answers with usable text the cascade
\* stops: exactly k requests have been sent, none follows, and call_ai_api
\* has returned that text, stripped, with the k-th endpoint's name as
\* success_model.
C1_ShortCircuit ==
  \A k \in DOMAIN replied :
    Usable(replied[k]) =>
      /\ Len(posted) = k
      /\ pc \in {"respond", "done"}
      /\ ai.called
      /\ ai.text = Str(Strip(replied[k].content))
      /\ Get(ai.debug, "success_model", "") = models_to_try[k].name
      /\ Get(attempts[k], "success", FALSE)

\* The second endpoint answered with usable text after the first had failed,
\* the handler has returned, and the third and fourth were never asked.
C1_Witness ==
  /\ pc = "done"
  /\ Len(replied) = 2
  /\ ~Usable(replied[1])
  /\ Usable(replied[2])
  /\ Raw(replied[2].content) # Strip(replied[2].content)
  /\ posted = ModelNames(2)
  /\ response.status = "success"

\* The requests of one call follow the list: always a prefix of the four
\* names in list order, each answered before the next is sent, every one
\* but the last a recorded failure.
InListOrder ==
  /\ Len(posted) <= Len(models_to_try)
  /\ posted = ModelNames(Len(posted))
  /\ Len(replied) = Len(posted)
  /\ Len(attempts) = Len(posted)
  /\ \A i \in 1..(Len(posted) - 1) :
       /\ "error" \in DOMAIN attempts[i]
       /\ "success" \notin DOMAIN attempts[i]

\* C3: within one call the endpoints are requested strictly in list order,
\* each at most once and only after the one before it has failed, so at most
\* four requests are sent; and the call returns.
C3_OrderedAndBounded == [](InListOrder) /\ ((pc = "call") ~> (pc = "respond"))

\* All four endpoints were asked, in order, and the call has returned.
C3_Witness ==
  /\ pc = "respond"
  /\ posted = ModelNames(4)
  /\ ai.called
  /\ ai.text = None

\* C4: a timeout or other transport exception, a non-200 status, a body that
\* does not parse, a 200 without choices and a content that is empty or at
\* most 20 characters long after stripping each fail their own attempt only:
\* the attempt carries an error and no success, the next endpoint is asked
\* (or, after the last, None is returned), and the handler answers.
C4_FailureIsLocal ==
  /\ response # Aborted
  /\ \A i \in DOMAIN replied :
       replied[i] \in FailingReplies =>
         /\ attempts[i].name = models_to_try[i].name
         /\ "error" \in DOMAIN attempts[i]
         /\ "success" \notin DOMAIN attempts[i]
         /\ IF i < Len(models_to_try)
            THEN Len(posted) > i \/ (pc = "call" /\ idx = i + 1)
            ELSE pc \in {"respond", "done"} /\ ai.called /\ ai.text = None

\* Four different kinds of failure in a row, each with its reason, and the
\* handler has answered "failed".
C4_Witness ==
  /\ pc = "done"
  /\ response.status = "failed"
  /\ Len(replied) = 4
  /\ replied[1] = Timeout
  /\ replied[2].k = "http" /\ replied[2].status = 200 /\ ~replied[2].json
  /\ replied[3] = Completion(Content("  ", Chars20, "  "))
  /\ replied[4].k = "http" /\ replied[4].status = 503
  /\ \A i \in 1..4 : "error" \in DOMAIN response.debug.attempts[i]

(***************************************************************************)
(* Properties of get_alert and chat (Spec)                                 *)
(***************************************************************************)
Served == req.kind \in {"alert", "chat"}
Answered == Served /\ response.status = "success"

\* The question of the request in hand: chat has one, get_alert passes none.
Asked == IF req.kind = "chat" THEN req.question ELSE None

\* The text of a returned response.
Text == IF req.kind = "chat" THEN response.answer ELSE response.recommendation

\* The text generate_smart_recommendation returns for the request in hand.
RuleText(r) == IF IsExc(r) THEN "" ELSE r.text

\* Whenever a response is returned without a remote text, it carries the text
\* of generate_smart_recommendation with ai_source "rule-based"; without a
\* credential no request is sent at all.
RuleBasedWhenAnswered ==
  /\ (Served /\ ~HF_API_KEY) => (posted = <<>> /\ ~ai.called)
  /\ (Answered /\ ~Truthy(ai.text)) =>
       /\ response.ai_source = "rule-based"
       /\ Text # ""
       /\ Text = RuleText(generate_smart_recommendation(data, req.profile, language, Asked))

\* C2: in get_alert and chat, when no endpoint yields usable text - all of
\* them failed, or no credential is configured, in which case no request is
\* sent at all - the returned text is what generate_smart_recommendation
\* returns, ai_source is "rule-based" and the text is not empty.
C2_RuleBasedFallback ==
  /\ RuleBasedWhenAnswered
  /\ (Served /\ pc = "done" /\ data # NoSnapshot /\ ~Truthy(ai.text)) =>
       /\ response.status = "success"
       /\ response.ai_source = "rule-based"
       /\ Text # ""

\* C5: generate_smart_recommendation returns a non-empty string and never
\* raises, for every snapshot get_alert or chat assembles, every profile,
\* language and question.
C5_RuleBasedTotal ==
  (Served /\ pc \in {"call", "respond", "done"} /\ data # NoSnapshot) =>
    RuleText(generate_smart_recommendation(data, req.profile, language, Asked)) # ""

\* C6: get_alert answers with status "success", a risk level, score and
\* factor list and a non-empty recommendation, whichever upstreams and
\* endpoints fail.
C6_AlertAlwaysAnswers ==
  (req.kind = "alert" /\ pc = "done") =>
    /\ response.status = "success"
    /\ response.risk.level \in {"Low", "Medium", "High", "Critical"}
    /\ response.risk.score >= 0
    /\ response.recommendation # ""

\* C7: in the snapshot of get_alert an adapter whose upstream fails or whose
\* call raises affects its own entry only: the snapshot is assembled, and the
\* entry of every adapter whose upstream answered as on the quiet day is the
\* entry of the quiet day.
C7_FaultIsolation ==
  (req.kind = "alert" /\ pc # "idle") =>
    /\ data # NoSnapshot
    /\ \A a \in AdapterSet :
         feeds[a] = Nominal[a] =>
           Entry(data, a) = Entry(alert_data(Nominal, FIRMS_MAP_KEY), a)

RequestedKeys ==
  {"weather", "air_quality", "pollen", "space", "donki", "earthquakes", "wildfires",
   "volcanoes", "gdacs", "flood", "marine", "solar_radiation"}

\* C8: every snapshot that reaches the prompt, the rule-based generator or
\* the risk computation has every requested key, with every sub-key of space
\* and donki, whatever the status of the entries.
C8_EveryKeyPresent ==
  (Served /\ (pc \in {"call", "respond"} \/ response.status = "success")) =>
    /\ RequestedKeys \subseteq DOMAIN data
    /\ {"kp", "dst", "solar_wind", "xray", "protons", "aurora"} \subseteq DOMAIN data.space
    /\ {"cme", "flares", "storms"} \subseteq DOMAIN data.donki
    /\ \A a \in AdapterSet : "status" \in DOMAIN Entry(data, a)

\* A snapshot with entries that are not ok has reached the rule-based
\* generator and the risk computation of get_alert.
C8_Witness ==
  /\ Answered
  /\ req.kind = "alert"
  /\ data.weather.status = "error"
  /\ data.marine.status = "no_coast"
  /\ data.wildfires.status \in {"error", "no_api_key"}
  /\ response.ai_source = "rule-based"

\* The entry each block of the risk computation reads, in the order of
\* RiskSteps, and the tag of the factors it appends.
ScoredEntry ==
  <<"wildfires", "earthquakes", "gdacs", "air_quality", "air_quality", "kp", "cme", "flood">>
FactorTag ==
  <<"wildfires", "earthquakes", "gdacs", "air_quality", "uv", "kp", "cme", "flood">>

NotOk(i) == Entry(data, ScoredEntry[i]).status # "ok"

\* C9: a domain whose result is not ok adds nothing to the score and no
\* factor; when every upstream is down the assessment is Low, 0 and an empty
\* factor list.
C9_NotOkIsSilent ==
  (Answered /\ req.kind = "alert") =>
    /\ \A i \in DOMAIN ScoredEntry :
         NotOk(i) =>
           /\ RiskSteps(data)[i] = NoStep
           /\ \A j \in DOMAIN response.risk.factors :
                response.risk.factors[j].domain # FactorTag[i]
    /\ response.risk.score =
         SeqSum([i \in DOMAIN ScoredEntry |->
                   IF NotOk(i) THEN 0 ELSE RiskSteps(data)[i].delta])
    /\ feeds = AllDown =>
         response.risk = [level |-> "Low", score |-> 0, factors |-> <<>>]

\* On the stormy day the flood service is down: its entry is in error and
\* the other domains still score.
C9_Witness ==
  /\ Answered
  /\ req.kind = "alert"
  /\ data.flood.status = "error"
  /\ data.wildfires.status = "ok"
  /\ response.risk.score > 0
  /\ response.risk.level = "Critical"

(***************************************************************************)
(* Properties of the risk computation (SpecRisk)                           *)
(***************************************************************************)
LevelRank(level) ==
  CASE level = "Low" -> 0 [] level = "Medium" -> 1 [] level = "High" -> 2
    [] level = "Critical" -> 3

\* The values a triggering value is raised to.
RaisedTo == {1, 2, 4, 5, 6, 7, 8, 9, 10, 11, 12, 81, 100, 101, 150}

\* The snapshots that differ from d in one triggering value, which is higher.
RaisedFires(d) ==
  {[d EXCEPT !.wildfires.count = n] : n \in {m \in RaisedTo : m > d.wildfires.count}}
RaisedMagnitude(d) ==
  {[d EXCEPT !.earthquakes.max_magnitude = Num(n)] :
     n \in {m \in RaisedTo : m > d.earthquakes.max_magnitude.v}}
RaisedAqi(d) ==
  {[d EXCEPT !.air_quality.eu_aqi = Num(n)] :
     n \in {m \in RaisedTo : m > d.air_quality.eu_aqi.v}}
RaisedUv(d) ==
  {[d EXCEPT !.air_quality.uv_index = Num(n)] :
     n \in {m \in RaisedTo : m > d.air_quality.uv_index.v}}
RaisedKp(d) ==
  {[d EXCEPT !.space.kp.value = Num(n)] :
     n \in {m \in RaisedTo : m > d.space.kp.value.v}}
Raised(d) == RaisedFires(d) \cup RaisedMagnitude(d) \cup RaisedAqi(d) \cup RaisedUv(d)
             \cup RaisedKp(d)

NotLower(risk, before) ==
  /\ risk.score >= before.score
  /\ LevelRank(risk.level) >= LevelRank(before.level)

\* C10: raising the fire count, the maximum magnitude, the AQI, the UV index
\* or Kp of the snapshot, everything else held fixed, never lowers the score
\* and never lowers the level.
C10_Monotone ==
  (req.kind = "alert" /\ response.status = "success") =>
    \A d \in Raised(data) : NotLower(Risk(d), response.risk)

\* A Medium assessment with UV index 8: a higher UV index raises its score, and
\* a higher magnitude lifts it to Critical.
C10_Witness ==
  /\ req.kind = "alert" /\ response.status = "success"
  /\ data.air_quality.uv_index = Num(8)
  /\ response.risk.level = "Medium"
  /\ \E d \in RaisedUv(data) : Risk(d).score > response.risk.score
  /\ \E d \in RaisedMagnitude(data) : Risk(d).level = "Critical"


(***************************************************************************)
(* The ladders of the risk computation                                     *)
(***************************************************************************)
\* The thresholds of each scored domain with the score delta of each, and
\* whether the value in snapshot d meets it; in the order of RiskSteps.
Rungs(d) ==
  LET fire_count == d.wildfires.count
      eq_max == d.earthquakes.max_magnitude.v
      aqi == d.air_quality.eu_aqi.v
      uv == d.air_quality.uv_index.v
      kp == d.space.kp.value.v
      alerts == d.gdacs.alerts
      level(l) == \E i \in DOMAIN alerts : alerts[i].alert_level = l
  IN  << {[met |-> fire_count > 5, delta |-> 4], [met |-> fire_count > 0, delta |-> 2]},
         {[met |-> eq_max >= 5, delta |-> 3], [met |-> eq_max >= 4, delta |-> 1]},
         {[met |-> level("Red"), delta |-> 3], [met |-> level("Orange"), delta |-> 1]},
         {[met |-> aqi > 100, delta |-> 3], [met |-> aqi > 80, delta |-> 2]},
         {[met |-> uv >= 11, delta |-> 2], [met |-> uv >= 8, delta |-> 1]},
         {[met |-> kp >= 8, delta |-> 3], [met |-> kp >= 7, delta |-> 2]},
         {[met |-> d.donki.cme.earth_directed.b, delta |-> 1]},
         {[met |-> d.flood.risk = "high", delta |-> 2]} >>

MetDeltas(rungs) == {r.delta : r \in {x \in rungs : x.met}}

\* The delta of the highest threshold met, 0 when none is.
HighestDelta(rungs) ==
  LET ds == MetDeltas(rungs) \cup {0}
  IN  CHOOSE m \in ds : \A n \in ds : m >= n

\* C11: each scored domain adds at most one score delta per request, the one
\* of the highest threshold its value meets; a value that meets several
\* thresholds of a ladder, or several Red alerts, are counted once.
C11_OneDeltaPerDomain ==
  (req.kind = "alert" /\ response.status = "success") =>
    /\ \A i \in DOMAIN Rungs(data) :
         RiskSteps(data)[i].delta = HighestDelta(Rungs(data)[i])
    /\ response.risk.score =
         SeqSum([i \in DOMAIN Rungs(data) |-> HighestDelta(Rungs(data)[i])])

\* Six fires, AQI 101 and two Red alerts: each meets its ladder more than
\* once and is scored with the top delta alone.
C11_Witness ==
  /\ req.kind = "alert" /\ response.status = "success"
  /\ data.wildfires.count = 6
  /\ data.air_quality.eu_aqi = Num(101)
  /\ Len(data.gdacs.alerts) = 2
  /\ \A i \in 1..2 : data.gdacs.alerts[i].alert_level = "Red"
  /\ MetDeltas(Rungs(data)[1]) = {4, 2}
  /\ MetDeltas(Rungs(data)[4]) = {3, 2}
  /\ RiskSteps(data)[1].delta = 4
  /\ RiskSteps(data)[3].delta = 3
  /\ RiskSteps(data)[4].delta = 3


\* The score when every ladder is met at its top.
TopScore == SeqSum(<<4, 3, 3, 3, 2, 3, 1, 2>>)

\* The band of scores of each level.
Band(level) ==
  CASE level = "Critical" -> {n \in 0..TopScore : n >= 5}
    [] level = "High" -> {3, 4}
    [] level = "Medium" -> {2}
    [] level = "Low" -> {0, 1}

\* C12: the level is a function of the score alone, with the breakpoints
\* >= 5 Critical, >= 3 High, >= 2 Medium, otherwise Low, and a higher score
\* never maps to a lower level.
C12_LevelFromScore ==
  (req.kind = "alert" /\ response.status = "success") =>
    /\ response.risk.level \in {"Low", "Medium", "High", "Critical"}
    /\ response.risk.score \in Band(response.risk.level)
    /\ response.risk.level = RiskLevel(response.risk.score)
    /\ \A m, n \in 0..TopScore :
         m <= n => LevelRank(RiskLevel(m)) <= LevelRank(RiskLevel(n))

\* One fire and AQI 101 give score 5, the lowest Critical score.
C12_Witness ==
  /\ req.kind = "alert" /\ response.status = "success"
  /\ response.risk.score = 5
  /\ response.risk.level = "Critical"
  /\ data.wildfires.count = 1
  /\ data.air_quality.eu_aqi = Num(101)


\* The position of a domain in an evaluation order; 0 when it is not in it.
Pos(order, domain) ==
  IF \E i \in DOMAIN order : order[i] = domain
  THEN CHOOSE i \in DOMAIN order : order[i] = domain
  ELSE 0

\* The factors follow order: of two factors whose domains are both in it, the
\* one of the earlier domain comes first.
FollowsOrder(factors, order) ==
  \A i, j \in DOMAIN factors :
    (i < j /\ Pos(order, factors[i].domain) > 0 /\ Pos(order, factors[j].domain) > 0)
      => Pos(order, factors[i].domain) <= Pos(order, factors[j].domain)

\* The order in which the blocks of get_alert append their factors.
CodeOrder ==
  <<"wildfires", "earthquakes", "gdacs", "air_quality", "uv", "kp", "cme", "flood">>

\* Space-weather index, solar X-ray class, seismic magnitude, wildfire count,
\* disaster-alert level, air-quality index, UV index, flood risk.
StatedOrder ==
  <<"kp", "xray", "earthquakes", "wildfires", "gdacs", "air_quality", "uv", "flood">>

\* C13, as stated: the factors appear in the order space-weather index, solar
\* X-ray class, seismic magnitude, wildfire count, disaster-alert level,
\* air-quality index, UV index, flood risk.
C13_StatedOrder ==
  (req.kind = "alert" /\ response.status = "success") =>
    FollowsOrder(response.risk.factors, StatedOrder)

\* C13, amended: the factors appear in the fixed order wildfire count, seismic
\* magnitude, disaster-alert level, air-quality index, UV index, space-weather
\* index, Earth-directed CME, flood risk, and every factor belongs to one of
\* these domains.
C13_FactorOrder ==
  (req.kind = "alert" /\ response.status = "success") =>
    /\ FollowsOrder(response.risk.factors, CodeOrder)
    /\ \A i \in DOMAIN response.risk.factors :
         Pos(CodeOrder, response.risk.factors[i].domain) > 0

\* A wildfire, a severe storm and a high flood risk: the storm factor follows
\* the wildfire factor and precedes the flood factor.
C13_Witness ==
  /\ req.kind = "alert" /\ response.status = "success"
  /\ Len(response.risk.factors) = 3
  /\ response.risk.factors[1].domain = "wildfires"
  /\ response.risk.factors[2].domain = "kp"
  /\ response.risk.factors[3].domain = "flood"


C15_Provenance ==
  Answered =>
    /\ (response.ai_source = "rule-based") <=> ~Truthy(ai.text)
    /\ ~Truthy(ai.text) =>
         /\ Text = RuleText(generate_smart_recommendation(data, req.profile, language, Asked))
         /\ \A k \in DOMAIN replied : ~Usable(replied[k])
    /\ Truthy(ai.text) =>
         /\ posted # <<>>
         /\ response.ai_source = posted[Len(posted)]
         /\ response.ai_source = models_to_try[Len(posted)].name
         /\ Usable(replied[Len(posted)])
         /\ Text = Strip(replied[Len(posted)].content)
         /\ \A k \in 1..(Len(posted) - 1) :
              ~Usable(replied[k]) /\ posted[k] # response.ai_source

\* The first two endpoints time out and the third answers a chat request.
C15_Witness ==
  /\ Answered /\ req.kind = "chat"
  /\ Len(posted) = 3
  /\ replied[1] = Timeout /\ replied[2] = Timeout
  /\ Usable(replied[3])
  /\ response.ai_source = "Zephyr-7B (HF Inference)"


(***************************************************************************)
(* The localization lookup on its own: every key of the table, keys no     *)
(* language has and the empty key, in the four languages, an unknown one   *)
(* and the empty one.                                                      *)
(***************************************************************************)
LookupKeys ==
  DOMAIN TRANSLATIONS_de \cup {"uv_extreme", "Hail", "xx", ""}

LookupLanguages == DOMAIN TRANSLATIONS \cup {"xx-unknown", "DE", ""}

\* One call t(key, lang).
t_call(Keys, Langs) ==
  /\ pc = "idle"
  /\ \E key \in Keys, lang \in Langs :
       /\ req' = [kind |-> "t", key |-> key, language |-> lang]
       /\ response' = [status |-> "success", text |-> t(key, lang)]
  /\ pc' = "done"
  /\ UNCHANGED <<mainvars, HF_API_KEY, FIRMS_MAP_KEY, feeds, language, data, prompt, idx,
                 attempts, posted, replied, ai>>

InitLookup == InitWith({FALSE}, {FALSE})

NextLookup == t_call(LookupKeys, LookupLanguages)

SpecLookup == InitLookup /\ [][NextLookup]_vars

LookedUp == req.kind = "t" /\ pc = "done"

\* What the lookup is to return: the entry of the language when the language
\* is recognised and has the key, else the entry of "de", else the key.
Entry_t(key, lang) ==
  IF lang \in DOMAIN TRANSLATIONS /\ key \in DOMAIN TRANSLATIONS[lang]
  THEN TRANSLATIONS[lang][key]
  ELSE IF key \in DOMAIN TRANSLATIONS["de"] THEN TRANSLATIONS["de"][key]
  ELSE key

\* C16, as stated: the lookup returns the language's entry, else the entry of
\* the default language, else the key itself, and never the empty string.
C16_NeverEmpty ==
  LookedUp =>
    /\ response.text = Entry_t(req.key, req.language)
    /\ response.text # ""

\* C16, amended: the lookup returns the language's entry, else the entry of
\* the default language, else the key itself; the result is not empty unless
\* the key is the empty string; "enjoy_day" in "xx-unknown" is the default
\* language's string.
C16_Lookup ==
  LookedUp =>
    /\ response.text = Entry_t(req.key, req.language)
    /\ req.key # "" => response.text # ""
    /\ (req.key = "enjoy_day" /\ req.language = "xx-unknown") =>
         response.text = "Geniessen Sie den Tag!"

\* A key that French lacks is answered from the default language.
C16_Witness ==
  /\ LookedUp
  /\ req.language = "fr"
  /\ req.key = "air_quality"
  /\ response.text = "Luftqualität"


(***************************************************************************)
(* The rule-based generator over the values around its thresholds: no      *)
(* credential is configured, so that every text is its own.  The feeds     *)
(* vary temperature, UV index, AQI and Kp on an otherwise quiet day, and   *)
(* the hazards one by one on a mild day; the requests cover the profiles   *)
(* the generator tests for, the languages, and a question of every intent. *)
(***************************************************************************)
AdviceFeeds ==
  {[Nominal EXCEPT
      !.weather = Weather(temp, Num(1)),
      !.air_quality = Air(Num(aqi), Num(uv)),
      !.kp = Kp(Str(kp))] :
     temp \in {None, Num(-1), Num(4), Num(31)}, uv \in {2, 4, 6, 8, 11},
     aqi \in {35, 60, 80, 101}, kp \in {"2", "5"}}
  \cup
  {[Nominal EXCEPT
      !.wildfires = FireRows(fires),
      !.earthquakes = Quakes(<<Quake(Num(mag), 120)>>),
      !.cme = Cme(1, cme),
      !.pollen = Pollen(Num(grass)),
      !.kp = Kp(Str(kp)),
      !.flood = Flood(discharge)] :
     fires \in {0, 1}, mag \in {3, 4}, cme \in BOOLEAN, grass \in {5, 60},
     kp \in {"2", "8"},
     discharge \in {<<Num(10), Num(11)>>, <<Num(2), Num(2), Num(2), Num(20)>>}}

Profiles == {"General Public", "Aurora Hunter", "Allergy"}

Questions ==
  {Question("Was soll ich anziehen?", {}),
   Question("Can I go running today?", {"running", "run"}),
   Question("Do I need sunscreen?", {"sunscreen", "sun"}),
   Question("Is the evening better?", {"evening"}),
   Question("Will I see the aurora?", {"aurora"}),
   Question("How is the air?", {"air"}),
   Question("Which AI are you?", {"which ai"}),
   Question("A run in the evening?", {"run", "evening"}),
   Question("Which model forecasts the aurora?", {"model", "aurora"}),
   Question("Is the air good for the aurora in the evening?",
            {"air", "aurora", "evening"})}

AdviceRequests ==
  {AlertRequest(p, l) : p \in Profiles, l \in {"de", "en", "fr"}}
  \cup {AlertRequest("General Public", "xx")}
  \cup {ChatRequest(p, l, q) : p \in Profiles, l \in {"de", "en"}, q \in Questions}

InitAdvice == InitWith({FALSE}, {TRUE})

NextAdvice ==
  \/ get_alert(AdviceRequests, AdviceFeeds)
  \/ chat(AdviceRequests, AdviceFeeds)
  \/ get_alert_return
  \/ chat_return

SpecAdvice == InitAdvice /\ [][NextAdvice]_vars


(***************************************************************************)
(* Properties of the rule-based text (SpecAdvice)                          *)
(***************************************************************************)
IntentWords == MetaWords \cup JogWords \cup UvWords \cup EveningWords \cup AuroraWords
               \cup AirWords

\* A response whose text is the default message: no question, or a question
\* with no keyword of any intent.
DefaultCase ==
  /\ Answered
  /\ response.ai_source = "rule-based"
  /\ Asked = None \/ Asked.has \cap IntentWords = {}

\* The parts the text of the response in hand was joined from.
Parts == generate_smart_recommendation(data, req.profile, language, Asked).parts

OfKind(parts, kind) == {i \in DOMAIN parts : parts[i].kind = kind}

\* The first text of each tip the default message has to offer, in the order
\* temperature, UV, air quality, aurora.
GeneratedTips ==
  LET temp == data.weather.temperature
      uv == data.air_quality.uv_index.v
      aqi == data.air_quality.eu_aqi.v
      kp == data.space.kp.value.v
  IN  (IF temp # None /\ temp.v # 0 /\ temp.v < 5 THEN <<t("warm_clothes", language)>>
       ELSE IF temp # None /\ temp.v > 28 THEN <<t("stay_hydrated", language)>>
       ELSE <<>>)
      \o (IF uv >= 3 /\ uv < 8 THEN <<t("sunscreen_needed", language)>> ELSE <<>>)
      \o (IF aqi <= 40 THEN <<t("air_quality", language)>> ELSE <<>>)
      \o (IF req.profile # "Aurora Hunter" THEN <<>>
          ELSE IF kp >= 5 THEN <<t("aurora_possible", language)>>
          ELSE <<t("aurora_unlikely", language)>>)

\* The conditions under which the default message warns.
Warned ==
  <<data.air_quality.uv_index.v >= 8,
    data.air_quality.eu_aqi.v > 80,
    data.wildfires.count > 0,
    data.earthquakes.max_magnitude.v >= 4,
    data.donki.cme.earth_directed.b,
    data.pollen.high_pollen # <<>> /\ req.profile = "Allergy">>

\* C17: without an applicable intent the message is, in this order, the
\* greeting with the conditions, every triggered warning, at most three tips -
\* the first three of temperature, UV, air quality, aurora - and the closing
\* remark, which is there exactly when there is no warning.
C17_DefaultMessageShape ==
  DefaultCase =>
    LET parts == Parts
        w == Cardinality(OfKind(parts, "warning"))
        n == Cardinality(OfKind(parts, "tip"))
        c == Cardinality(OfKind(parts, "closing"))
        shown == IF Len(GeneratedTips) < 3 THEN Len(GeneratedTips) ELSE 3
    IN  /\ Text = Render(parts)
        /\ OfKind(parts, "greeting") = {1}
        /\ parts[1].segs[1].text = t("good_day", language)
        /\ OfKind(parts, "warning") = 2..(1 + w)
        /\ w = Cardinality({i \in DOMAIN Warned : Warned[i]})
        /\ OfKind(parts, "tip") = (2 + w)..(1 + w + n)
        /\ n = shown
        /\ \A i \in 1..n : parts[1 + w + i].segs[1].text = GeneratedTips[i]
        /\ c = IF w = 0 THEN 1 ELSE 0
        /\ c = 1 => /\ parts[Len(parts)].kind = "closing"
                    /\ parts[Len(parts)].segs[1].text = t("enjoy_day", language)
        /\ Len(parts) = 1 + w + n + c

\* An aurora hunter on a cold, clear day: four tips are on offer, three are
\* shown, the aurora tip is not, and the closing remark ends the message.
C17_Witness ==
  /\ DefaultCase
  /\ req.profile = "Aurora Hunter"
  /\ Len(GeneratedTips) = 4
  /\ Cardinality(OfKind(Parts, "tip")) = 3
  /\ OfKind(Parts, "warning") = {}
  /\ Parts[5].kind = "closing"


\* The high-priority hazards as the risk computation of get_alert sees them:
\* the blocks for wildfires, earthquakes, air quality, UV, the geomagnetic
\* storm and the flood risk, each present when its block scores.
HazardBlocks == {1, 2, 4, 5, 6, 8}
Hazards == {i \in HazardBlocks : RiskSteps(data)[i] # NoStep}

\* C18: in the default message every high-priority hazard present in the
\* snapshot - wildfires, an earthquake, a severe geomagnetic storm, poor air,
\* high UV, a high flood risk - has its own warning, so the closing remark
\* does not appear while one of them is present.
C18_HazardsWarned ==
  (DefaultCase /\ req.kind = "alert") =>
    /\ Cardinality(OfKind(Parts, "warning")) >= Cardinality(Hazards)
    /\ Hazards # {} => OfKind(Parts, "closing") = {}


\* The intents in the order in which the generator tests for them, with the
\* keywords of each.
Intents ==
  <<[name |-> "meta", words |-> MetaWords], [name |-> "jogging", words |-> JogWords],
    [name |-> "uv", words |-> UvWords], [name |-> "evening", words |-> EveningWords],
    [name |-> "aurora", words |-> AuroraWords], [name |-> "air", words |-> AirWords]>>

Matching(question) == {i \in DOMAIN Intents : question.has \cap Intents[i].words # {}}

\* The intent a question is answered under: the first it has a keyword of.
Intent(question) ==
  Intents[CHOOSE i \in Matching(question) : \A j \in Matching(question) : i <= j].name

\* The values of the snapshot the answer of an intent may quote.
Quoted(intent) ==
  LET temp == PyStr(data.weather.temperature)
      uv == PyStr(data.air_quality.uv_index)
      aqi == PyStr(data.air_quality.eu_aqi)
      kp == PyStr(data.space.kp.value)
      prob == PyStr(data.space.aurora.probability)
  IN  CASE intent = "jogging" -> {temp, uv, aqi}
        [] intent = "uv" -> {uv}
        [] intent = "evening" -> {uv}
        [] intent = "aurora" -> {kp, prob}
        [] intent = "air" -> {aqi}

\* A rule-based answer to a question with a keyword of one of the five intents
\* and none of the questions about the assistant.
IntentCase ==
  /\ Answered /\ req.kind = "chat"
  /\ response.ai_source = "rule-based"
  /\ Matching(Asked) # {}
  /\ Intent(Asked) # "meta"

Untranslated(parts, lang) ==
  UNION {{parts[i].segs[j].text :
            j \in {k \in DOMAIN parts[i].segs :
                     /\ parts[i].segs[k].src = "fixed"
                     /\ parts[i].segs[k].lg \notin {"", lang}}} :
         i \in DOMAIN parts}

\* C20: every phrase of the rule-based text, in the canned answers as in the
\* default message, is drawn from the localization table for the requested
\* language: the text for "en", "fr" or "it" has no phrase that is written in
\* one language in the code.
C20_AllFromTable ==
  (Answered /\ response.ai_source = "rule-based" /\ language \in {"en", "fr", "it"}) =>
    Untranslated(Parts, language) = {}

(***************************************************************************)
(* Intake: the query parameters of get_alert and chat.  lat and lon are    *)
(* declared as float with a default and without bounds, so every number    *)
(* the caller sends reaches the handler; language is any string.           *)
(***************************************************************************)
\* lat: float = Query(DEFAULT_LAT), lon: float = Query(DEFAULT_LON)
Located(r, lat, lon) == r @@ [lat |-> lat, lon |-> lon]

Latitudes == {-91, 47, 91}
Longitudes == {-181, 8, 181}

IntakeRequests ==
  {Located(r, lat, lon) :
     r \in {AlertRequest("General Public", "de"), AlertRequest("Aurora Hunter", "xx"),
            ChatRequest("Allergy", "en", Question("Can I go running today?", {"running", "run"})),
            ChatRequest("General Public", "", Question("Was soll ich anziehen?", {}))},
     lat \in Latitudes, lon \in Longitudes}

IntakeFeeds == {Nominal, Stormy, AllDown, [Nominal EXCEPT !.kp = JsonObject]}

InitIntake == InitWith({FALSE}, {TRUE})

NextIntake ==
  \/ get_alert(IntakeRequests, IntakeFeeds)
  \/ chat(IntakeRequests, IntakeFeeds)
  \/ get_alert_return
  \/ chat_return

SpecIntake == InitIntake /\ [][NextIntake]_vars

(***************************************************************************)
(* Properties of the intake (SpecIntake)                                   *)
(***************************************************************************)
InRange(r) == r.lat >= -90 /\ r.lat <= 90 /\ r.lon >= -180 /\ r.lon <= 180

\* C21: a request whose latitude is outside [-90, 90] or whose longitude is
\* outside [-180, 180] ends in an error, with no upstream fetched and no
\* snapshot assembled, and a request ends in an error only for such input.
C21_CoordinatesValidated ==
  Served =>
    /\ ~InRange(req) => /\ feeds = NoFeeds
                        /\ data = NoSnapshot
                        /\ pc = "done" => response.status = "error"
    /\ (pc = "done" /\ response.status = "error") => ~InRange(req)

\* The handler fails on this request whatever language was sent: the snapshot,
\* the rule-based text or the risk raises for the default language as well.
FailsInGerman ==
  \/ data = NoSnapshot
  \/ IsExc(generate_smart_recommendation(data, req.profile, "de", Asked))
  \/ req.kind = "alert" /\ IsExc(Risk(data))

\* C22: once a request is taken in, the working language is a key of the
\* localization table: a recognised language is kept and any other value is
\* replaced by "de".  The prompt carries the instruction of that language, the
\* rule-based text is generated in it, the response names it, and a request
\* does not fail for its language.
C22_LanguageSupported ==
  (Served /\ pc # "idle") =>
    /\ language \in DOMAIN TRANSLATIONS
    /\ language = IF req.language \in DOMAIN TRANSLATIONS THEN req.language ELSE "de"
    /\ prompt # NoPrompt => prompt.instruction = lang_instructions[language]
    /\ pc = "done" =>
         /\ response.status = "success" =>
              /\ response.language = language
              /\ response.ai_source = "rule-based" =>
                   Text = RuleText(generate_smart_recommendation(
                                     data, req.profile, language, Asked))
         /\ response.status = "error" => FailsInGerman

C22_Witness ==
  /\ Served
  /\ req.language \notin DOMAIN TRANSLATIONS
  /\ prompt # NoPrompt
  /\ pc = "done"
  /\ response.status = "success"
  /\ response.language = "de"
  /\ response.ai_source = "rule-based"

(***************************************************************************)
(* A benign day and single hazards on it: the X-ray flux in three classes, *)
(* earthquakes of every rung inside and outside the 500 km radius, and     *)
(* more disaster alerts within the 1000 km radius than the adapter keeps.  *)
(***************************************************************************)
Benign == [Nominal EXCEPT !.air_quality = Air(Num(15), Num(1)),
                          !.earthquakes = Quakes(<<>>)]

\* Ten green alerts, nearer than any other alert of these feeds.
Crowd == [i \in 1..10 |-> Disaster("Drought " \o ToString(i), "DR", "Green", 10 * i)]

ScenarioFeeds ==
  {[Benign EXCEPT !.xray = Ok([k |-> "entries", flux |-> Num(flux)]),
                  !.earthquakes = Quakes(quakes),
                  !.gdacs = Gdacs(alerts)] :
     flux \in {50, 2000, 10000},
     quakes \in {<<>>, <<Quake(Num(6), 700)>>, <<Quake(Num(3), 120)>>,
                 <<Quake(Num(4), 120)>>, <<Quake(Num(5), 300), Quake(Num(4), 120)>>,
                 <<Quake(Num(6), 120)>>},
     alerts \in {<<>>, Crowd,
                 Crowd \o <<Disaster("Cyclone B", "TC", "Red", 900)>>,
                 Crowd \o <<Disaster("Flood A", "FL", "Orange", 900)>>,
                 Crowd \o <<Disaster("Flood A", "FL", "Orange", 800),
                            Disaster("Cyclone B", "TC", "Red", 900)>>,
                 Crowd \o <<Disaster("Cyclone B", "TC", "Red", 1100)>>}}

InitScenario == InitWith({FALSE}, {TRUE})

NextScenario ==
  \/ get_alert({AlertRequest("General Public", "en")}, ScenarioFeeds)
  \/ get_alert_return

SpecScenario == InitScenario /\ [][NextScenario]_vars

(***************************************************************************)
(* Properties of the risk computation on single hazards (SpecScenario)     *)
(***************************************************************************)
\* The score a flare class is said to add: 3 for X, 2 for M, else nothing.
XrayDelta(level) ==
  IF level = "None" THEN 0
  ELSE IF SubSeq(level, 1, 1) = "X" THEN 3
  ELSE IF SubSeq(level, 1, 1) = "M" THEN 2
  ELSE 0

\* C23: the risk computation scores the class of the solar X-ray flux: the
\* score of the response holds 3 for class X and 2 for class M on top of the
\* other domains, with one factor for the flare whenever it scores.
C23_XrayScored ==
  (Answered /\ req.kind = "alert" /\ pc = "done") =>
    LET steps == RiskSteps(data)
        others == SeqSum([i \in DOMAIN steps |-> steps[i].delta])
        rest == Len(Concat([i \in DOMAIN steps |-> steps[i].factors]))
        flare == XrayDelta(data.space.xray.level)
    IN  /\ response.risk.score = others + flare
        /\ Len(response.risk.factors) = rest + (IF flare > 0 THEN 1 ELSE 0)

\* The response of get_alert in hand, and what its seismic block added.
AlertDone == Answered /\ req.kind = "alert" /\ pc = "done"
Seismic == EarthquakeStep(data)
SeismicFactors ==
  {i \in DOMAIN response.risk.factors : response.risk.factors[i].domain = "earthquakes"}

\* C24: the seismic block adds 3 or 4 for a maximum magnitude of 6 and more,
\* 2 or 3 from 5, 1 or 2 from 4 and nothing below 4, and it adds something
\* only when an earthquake lies within the radius: with a count of 0 there is
\* neither a seismic score nor a seismic factor.
C24_SeismicLadder ==
  AlertDone =>
    LET count == data.earthquakes.count
        mag == data.earthquakes.max_magnitude
    IN  /\ count = 0 => Seismic.delta = 0 /\ SeismicFactors = {}
        /\ Seismic.delta > 0 => count > 0
        /\ Cardinality(SeismicFactors) = (IF Seismic.delta > 0 THEN 1 ELSE 0)
        /\ IsNum(mag) =>
             Seismic.delta \in (IF mag.v >= 6 THEN {3, 4}
                                ELSE IF mag.v >= 5 THEN {2, 3}
                                ELSE IF mag.v >= 4 THEN {1, 2}
                                ELSE {0})
        /\ ~IsNum(mag) => Seismic.delta = 0

\* A magnitude 6 earthquake 120 km away scores 3 and is listed.
C24_Witness ==
  /\ AlertDone
  /\ data.earthquakes.count = 1
  /\ data.earthquakes.max_magnitude = Num(6)
  /\ Seismic.delta = 3
  /\ Cardinality(SeismicFactors) = 1
  /\ response.risk.score >= 3

\* A day on which every domain answers and nothing is near a threshold: AQI
\* 15, UV 1, no earthquake, wildfire or disaster alert within the radius, a
\* quiet Kp, no flare of class M or X, no Earth-directed CME, no flood risk.
BenignDay ==
  /\ AlertDone
  /\ data.air_quality.eu_aqi = Num(15)
  /\ data.air_quality.uv_index = Num(1)
  /\ data.earthquakes.count = 0
  /\ data.wildfires.count = 0
  /\ data.gdacs.count = 0
  /\ data.space.kp.value.v < 5
  /\ XrayDelta(data.space.xray.level) = 0
  /\ ~data.donki.cme.earth_directed.b
  /\ data.flood.risk = "none"

\* The statement of C25 as it stands: the advisory of a benign day is the
\* closing phrase alone.
C25_OnlyClosing ==
  BenignDay =>
    /\ response.risk.level = "Low"
    /\ response.risk.factors = <<>>
    /\ response.ai_source = "rule-based"
    /\ OfKind(Parts, "warning") = {}
    /\ Text = t("enjoy_day", language)

\* C25: on a benign day the risk level is Low with score 0 and no factor, and
\* the rule-based advisory has no warning: it is the greeting with the
\* conditions, at most three tips, the one on the good air quality among
\* them, and the closing phrase.
C25_BenignDay ==
  BenignDay =>
    /\ response.risk = [level |-> "Low", score |-> 0, factors |-> <<>>]
    /\ response.ai_source = "rule-based"
    /\ Text = Render(Parts)
    /\ OfKind(Parts, "warning") = {}
    /\ OfKind(Parts, "greeting") = {1}
    /\ OfKind(Parts, "closing") = {Len(Parts)}
    /\ PartText(Parts[Len(Parts)]) = t("enjoy_day", language)
    /\ OfKind(Parts, "tip") = 2..(Len(Parts) - 1)
    /\ Len(Parts) <= 5
    /\ \E i \in OfKind(Parts, "tip") :
         PartText(Parts[i]) = t("air_quality", language) \o ": " \o t("good", language)

C25_Witness ==
  /\ BenignDay
  /\ data.weather.temperature = Num(18)
  /\ Text = "Hello! Mainly clear, 18°C. Air quality: Good Enjoy your day!"

(***************************************************************************)
(* The attempt log of the cascade (SpecCascade)                            *)
(***************************************************************************)
\* C26: when call_ai_api returns, debug_info["attempts"] has one entry for
\* every request made, in the order of the requests; every entry but a final
\* successful one carries an error; success_model is set exactly when a text
\* is returned, and names the last entry; None with a credential means every
\* configured model is in the log; without a credential the log is empty and
\* debug_info carries an error.
C26_AttemptLog ==
  ai.called =>
    LET atts == ai.debug.attempts
        text == Truthy(ai.text)
        failed(a) == "error" \in DOMAIN a /\ "success" \notin DOMAIN a
    IN  /\ Len(atts) = Len(posted)
        /\ \A i \in DOMAIN atts : atts[i].name = posted[i]
        /\ \A i \in DOMAIN atts : (i < Len(atts) \/ ~text) => failed(atts[i])
        /\ text => /\ atts # <<>>
                   /\ ~failed(atts[Len(atts)])
                   /\ atts[Len(atts)].success
                   /\ ai.debug.success_model = atts[Len(atts)].name
        /\ ("success_model" \in DOMAIN ai.debug) <=> text
        /\ (~text /\ HF_API_KEY) =>
             /\ Len(atts) = Len(models_to_try)
             /\ \A i \in DOMAIN atts : atts[i].model = models_to_try[i].model
        /\ ~HF_API_KEY => /\ atts = <<>>
                          /\ ai.text = None
                          /\ ai.debug.error = "No API key configured"

\* Two models fail and the third answers: three entries, the last one the
\* success.
C26_Witness ==
  /\ ai.called
  /\ Truthy(ai.text)
  /\ Len(ai.debug.attempts) = 3
  /\ "error" \in DOMAIN ai.debug.attempts[1]
  /\ "error" \in DOMAIN ai.debug.attempts[2]
  /\ ai.debug.success_model = models_to_try[3].name

\* The disaster alerts of the feed within the 1000 km radius of get_alert,
\* before the adapter sorts and cuts the list.
AlertsWithin ==
  {i \in DOMAIN feeds.gdacs.body.features : feeds.gdacs.body.features[i].dist <= 1000}
SomeWithin(level) ==
  \E i \in AlertsWithin : feeds.gdacs.body.features[i].alert_level = level
GdacsFactors ==
  {i \in DOMAIN response.risk.factors : response.risk.factors[i].domain = "gdacs"}

\* C27: cutting the list of disaster alerts to ten entries does not change the
\* risk: the alert block adds 3 exactly when some alert within the radius is
\* Red, and 1 exactly when none is Red and some is Orange, as it would on the
\* whole list.
C27_TruncationKeepsDecision ==
  AlertDone =>
    LET step == GdacsStep(data)
    IN  /\ data.gdacs.count = Cardinality(AlertsWithin)
        /\ Len(data.gdacs.alerts) = (IF data.gdacs.count < 10 THEN data.gdacs.count ELSE 10)
        /\ step.delta \in {0, 1, 3}
        /\ step.delta = 3 <=> SomeWithin("Red")
        /\ step.delta = 1 <=> (~SomeWithin("Red") /\ SomeWithin("Orange"))
        /\ GdacsFactors # {} <=> step.delta > 0

\* Ten green alerts nearby and a red one at 900 km: eleven within the radius,
\* ten kept, the red one first among them.
C27_Witness ==
  /\ AlertDone
  /\ data.gdacs.count = 11
  /\ Len(data.gdacs.alerts) = 10
  /\ data.gdacs.alerts[1].alert_level = "Red"
  /\ data.gdacs.alerts[1].distance_km = 900
  /\ GdacsStep(data).delta = 3
  /\ GdacsFactors # {}

(***************************************************************************)
(* Score and factors (SpecRisk)                                            *)
(***************************************************************************)
\* C28: the score of a response lies between 0 and the sum of the highest
\* steps, 21; the factor list is empty exactly when the score is 0, so every
\* level above Low comes with at least one factor.
C28_ScoreAndFactors ==
  AlertDone =>
    /\ response.risk.score \in 0..TopScore
    /\ TopScore = 21
    /\ response.risk.factors = <<>> <=> response.risk.score = 0
    /\ response.risk.level # "Low" => response.risk.factors # <<>>

\* A UV index of 8 alone: score 1, level Low, and one factor.
C28_Witness ==
  /\ AlertDone
  /\ response.risk.score = 1
  /\ response.risk.level = "Low"
  /\ Len(response.risk.factors) = 1

(***************************************************************************)
(* src/api/main.py: get_ai_alert.  The handler is cut at its three         *)
(* external requests: the Kp index from NOAA, the storm alerts from NASA   *)
(* DONKI (both in fetch_space_weather_data), and the completion from       *)
(* Apertus.  A reply is what requests hands back, as for safe_fetch:       *)
(* [raised, status, json, body].                                           *)
(***************************************************************************)
appvars == <<HF_API_KEY, FIRMS_MAP_KEY, req, pc, feeds, language, data, prompt,
             idx, attempts, posted, replied, ai, response>>

\* raise HTTPException(status_code=...)
HTTPException(status_code) == [status |-> "error", code |-> status_code]

\* A variant of the configuration test that lets every request pass.
ConfiguredAlways(key) == TRUE

\* not (not APERTUS_API_KEY or APERTUS_INFERENCE_URL.startswith("YOUR_")):
\* the URL is a literal that does not start with "YOUR_".
Configured(key) == key

\* requests.get / requests.post, raise_for_status() and .json(): the body, or
\* Exc when the request raised, the status is 4xx or 5xx, or the text is not
\* JSON.
GetJson(http) ==
  IF http.raised \/ http.status >= 400 \/ ~http.json THEN Exc ELSE http.body

\* latest_kp = kp_data[-1]['kp'] if kp_data else "N/A".  Bodies: a list of n
\* entries whose last one is a dict (with or without 'kp') or a row, on which
\* ['kp'] raises TypeError; a JSON object, on which [-1] raises KeyError.
LatestKp(kp_data) ==
  IF kp_data.k = "object" THEN Exc
  ELSE IF kp_data.n = 0 THEN Str("N/A")
  ELSE IF kp_data.last.t = "dict" /\ "kp" \in DOMAIN kp_data.last THEN kp_data.last.kp
  ELSE Exc

\* max(gst_alerts, key=lambda x: x.get('kpIndex', 0)): the first alert whose
\* key is the greatest.  An alert is given by its 'kpIndex', None when absent.
KpIndexKey(alert) == IF alert = None THEN 0 ELSE alert.v
MaxByKpIndex(gst_alerts) ==
  LET best == CHOOSE i \in DOMAIN gst_alerts :
                /\ \A j \in DOMAIN gst_alerts :
                     KpIndexKey(gst_alerts[j]) <= KpIndexKey(gst_alerts[i])
                /\ \A j \in 1..(i - 1) :
                     KpIndexKey(gst_alerts[j]) < KpIndexKey(gst_alerts[i])
  IN  gst_alerts[best]

\* alert_summary.  Bodies: a list of alerts; a JSON object with members, whose
\* keys are strings, on which x.get raises AttributeError.
AlertSummary(gst_alerts) ==
  IF gst_alerts.k = "object" THEN Exc
  ELSE IF gst_alerts.alerts = <<>> THEN Str("No recent GST alerts.")
  ELSE LET latest_gst == MaxByKpIndex(gst_alerts.alerts)
       IN  Str("Geomagnetic Storm (GST) Alert. Max Kp observed: " \o
               (IF latest_gst = None THEN "N/A" ELSE PyStr(latest_gst)))

\* The request enters the handler: without a credential it is answered 503
\* before the try block.
get_ai_alert(Ps) ==
  /\ main_pc = "idle"
  /\ \E p \in Ps : main_req' = [kind |-> "ai_alert", profile |-> p]
  /\ IF ~Configured(APERTUS_API_KEY)
     THEN /\ main_response' = HTTPException(503)
          /\ main_pc' = "done"
     ELSE /\ main_pc' = "kp"
          /\ UNCHANGED main_response
  /\ UNCHANGED <<APERTUS_API_KEY, requested, raw_data, appvars>>

\* fetch_space_weather_data up to latest_kp; an exception leaves the function
\* and is answered 500 by one of the two except clauses of get_ai_alert.
get_kp(KpReplies) ==
  /\ main_pc = "kp"
  /\ \E http \in KpReplies :
       LET kp_data == GetJson(http)
           latest_kp == IF IsExc(kp_data) THEN Exc ELSE LatestKp(kp_data)
       IN  /\ requested' = Append(requested, [url |-> "NOAA_KP_URL", reply |-> http])
           /\ IF IsExc(latest_kp)
              THEN /\ main_response' = HTTPException(500)
                   /\ main_pc' = "done"
                   /\ UNCHANGED raw_data
              ELSE /\ raw_data' = [kp_index |-> latest_kp]
                   /\ main_pc' = "gst"
                   /\ UNCHANGED main_response
  /\ UNCHANGED <<APERTUS_API_KEY, main_req, appvars>>

\* fetch_space_weather_data from the GST request to its return.
get_gst(GstReplies) ==
  /\ main_pc = "gst"
  /\ \E http \in GstReplies :
       LET gst_alerts == GetJson(http)
           alert_summary == IF IsExc(gst_alerts) THEN Exc ELSE AlertSummary(gst_alerts)
       IN  /\ requested' = Append(requested, [url |-> "NASA_GST_URL", reply |-> http])
           /\ IF IsExc(alert_summary)
              THEN /\ main_response' = HTTPException(500)
                   /\ main_pc' = "done"
                   /\ UNCHANGED raw_data
              ELSE /\ raw_data' = [kp_index |-> raw_data.kp_index,
                                   alert_summary |-> alert_summary]
                   /\ main_pc' = "apertus"
                   /\ UNCHANGED main_response
  /\ UNCHANGED <<APERTUS_API_KEY, main_req, appvars>>

\* The prompt, the one request to Apertus, and the return of get_ai_alert.
post_apertus(ApertusReplies) ==
  /\ main_pc = "apertus"
  /\ \E http \in ApertusReplies :
       LET ai_output == GetJson(http)
       IN  /\ requested' = Append(requested, [url |-> "APERTUS_INFERENCE_URL",
                                              reply |-> http])
           /\ main_response' =
                IF IsExc(ai_output) THEN HTTPException(500)
                ELSE [status |-> "ok", code |-> 200,
                      data_source |-> raw_data, ai_result |-> ai_output]
  /\ main_pc' = "done"
  /\ UNCHANGED <<APERTUS_API_KEY, main_req, raw_data, appvars>>

\* What the three services may answer.
MainKpReplies ==
  {Unreachable, Http503, NotJson,
   Ok([k |-> "list", n |-> 0]),
   Ok([k |-> "list", n |-> 3, last |-> [t |-> "dict", kp |-> Str("2.33")]]),
   Ok([k |-> "list", n |-> 3, last |-> [t |-> "dict"]]),
   Ok([k |-> "list", n |-> 3, last |-> [t |-> "row"]]),
   Ok([k |-> "object"])}

MainGstReplies ==
  {Unreachable, Http503, NotJson,
   Ok([k |-> "list", alerts |-> <<>>]),
   Ok([k |-> "list", alerts |-> <<Num(5), Num(7), Num(7)>>]),
   Ok([k |-> "list", alerts |-> <<None, None>>]),
   Ok([k |-> "object"])}

MainApertusReplies ==
  {Unreachable, Http503, NotJson,
   Ok([k |-> "json", risk |-> "Low", advice |-> "Enjoy the sky."])}

MainProfiles == {"Drone Pilot", "Aurora Hunter", "Radio Operator"}

InitMain ==
  /\ HF_API_KEY = FALSE
  /\ FIRMS_MAP_KEY = FALSE
  /\ req = NoRequest
  /\ pc = "idle"
  /\ feeds = NoFeeds
  /\ language = ""
  /\ data = NoSnapshot
  /\ prompt = NoPrompt
  /\ idx = 0
  /\ attempts = <<>>
  /\ posted = <<>>
  /\ replied = <<>>
  /\ ai = NotCalled
  /\ response = NoResponse
  /\ APERTUS_API_KEY \in BOOLEAN
  /\ main_req = [kind |-> "none"]
  /\ main_pc = "idle"
  /\ requested = <<>>
  /\ raw_data = [gathered |-> FALSE]
  /\ main_response = [status |-> "pending"]

NextMain ==
  \/ get_ai_alert(MainProfiles)
  \/ get_kp(MainKpReplies)
  \/ get_gst(MainGstReplies)
  \/ post_apertus(MainApertusReplies)

SpecMain == InitMain /\ [][NextMain]_vars

(***************************************************************************)
(* Properties of get_ai_alert (SpecMain)                                   *)
(***************************************************************************)
\* A request that raised or was answered with an error status.
FailedRequest(entry) == entry.reply.raised \/ entry.reply.status >= 400
Urls == [i \in DOMAIN requested |-> requested[i].url]

\* C29: without the Apertus credential the request ends with 503 and no
\* external request was made; a failed request to NOAA, NASA or Apertus is
\* the last one made and ends the request with 500; Apertus is requested at
\* most once, and only after NOAA and NASA have answered, in this order; the
\* answer is either an error or the data with the output of Apertus, never a
\* text of the service's own.
C29_MainAlert ==
  /\ ~APERTUS_API_KEY => requested = <<>>
  /\ (main_pc = "done" /\ ~APERTUS_API_KEY) => main_response = HTTPException(503)
  /\ \A i \in DOMAIN requested :
       FailedRequest(requested[i]) =>
         /\ i = Len(requested)
         /\ main_pc = "done"
         /\ main_response = HTTPException(500)
  /\ \E n \in 0..3 : Urls = SubSeq(<<"NOAA_KP_URL", "NASA_GST_URL", "APERTUS_INFERENCE_URL">>, 1, n)
  /\ main_pc = "done" =>
       \/ main_response \in {HTTPException(503), HTTPException(500)}
       \/ /\ Len(requested) = 3
          /\ main_response = [status |-> "ok", code |-> 200, data_source |-> raw_data,
                              ai_result |-> requested[3].reply.body]
  /\ main_pc # "done" => main_response = [status |-> "pending"]

\* NOAA and NASA have answered and Apertus is down: 500 after three requests.
C29_Witness ==
  /\ main_pc = "done"
  /\ Len(requested) = 3
  /\ ~FailedRequest(requested[1])
  /\ ~FailedRequest(requested[2])
  /\ FailedRequest(requested[3])
  /\ main_response = HTTPException(500)

(***************************************************************************)
(* The order of the intents (SpecAdvice)                                   *)
(***************************************************************************)
\* A rule-based answer to a question.
RuleBasedChat ==
  /\ Answered /\ req.kind = "chat"
  /\ response.ai_source = "rule-based"

\* C30: a question is answered under one intent only, the first it has a
\* keyword of in the order AI itself, jogging, UV/sun, evening or morning,
\* aurora, air quality; a question with no keyword of any intent gets the
\* default message, the same text as without a question.
C30_FirstIntentOrDefault ==
  RuleBasedChat =>
    /\ [i \in DOMAIN Intents |-> Intents[i].name] =
         <<"meta", "jogging", "uv", "evening", "aurora", "air">>
    /\ Text = Render(Parts)
    /\ Matching(Asked) # {} =>
         /\ Len(Parts) = 1
         /\ Parts[1].kind = "answer"
         /\ Parts[1].intent = Intent(Asked)
    /\ Matching(Asked) = {} =>
         /\ Parts[1].kind = "greeting"
         /\ OfKind(Parts, "answer") = {}
         /\ Text = generate_smart_recommendation(data, req.profile, language, None).text

\* A question about the air, the aurora and the evening is answered as a
\* question about the evening.
C30_Witness ==
  /\ RuleBasedChat
  /\ Asked.has = {"air", "aurora", "evening"}
  /\ Cardinality(Matching(Asked)) = 3
  /\ Parts[1].intent = "evening"
  /\ Len(Parts) = 1

====
